---- MODULE Spec2Model ----
(***************************************************************************)
(* A model of the plugin subsystem of Cloud Craver (src/src/plugins):      *)
(* the Plugin lifecycle container, the PluginManager workflows             *)
(* (install_plugin, load_plugin, unload_plugin, emit_hook), the            *)
(* PluginLoader file placement, the PluginRegistry and the                 *)
(* DependencyManager.                                                      *)
(*                                                                         *)
(* One specification per subsystem; each leaves the variables of the       *)
(* other subsystems at their initial values.                               *)
(*   SpecLifecycle  Plugin.load/initialize/activate/deactivate/unload      *)
(*   SpecLoad       PluginManager.load_plugin / unload_plugin coroutines   *)
(*   SpecHook       hook registration and PluginManager.emit_hook          *)
(*   SpecInstall    PluginManager.install_plugin, PluginLoader.install,    *)
(*                  PluginRegistry.register / unregister                   *)
(*   SpecDep        DependencyManager                                      *)
(*   SpecResolve, SpecConstraint  dependency resolution, constraints        *)
(*   SpecArchive    installation from an archive file                      *)
(*   SpecSandbox    PluginSandbox regions, file access, resource limits    *)
(*   SpecShutdown   PluginSandbox construction and shutdown                *)
(*   SpecRegistry   PluginRegistry with its indexes and its file           *)
(*   SpecSave       the steps of PluginRegistry._save_registry             *)
(*   SpecDiscovery  PluginDiscovery                                        *)
(*   SpecValidator  PluginValidator                                        *)
(*   SpecSearch     PluginMarketplace.search and its cache                 *)
(***************************************************************************)
EXTENDS Integers, Sequences, FiniteSets, TLC

VARIABLES
    insts,              \* Plugin objects created so far: id -> Plugin record
    plugins,            \* PluginManager.plugins: name -> Plugin id (active set)
    hooks,              \* PluginManager.hooks: hook name -> sequence of Plugin ids
    tasks,              \* the load_plugin / unload_plugin coroutines in flight
    walk,               \* position of the calls so far on the lifecycle walk
    ncalls,             \* number of direct Plugin method calls made so far
    cbs,                \* PluginInterface._hooks: id -> hook name -> callbacks
    emitted,            \* what the last emit_hook call did and returned
    dirs,               \* data_dir/plugins/<name>: {} or {the tree there}
    registry_data,      \* PluginRegistry.registry_data['plugins'] (in memory)
    registry_file,      \* the content of registry.json (on disk)
    last,               \* the last orchestrator call: inputs, stage, result
    installed_plugins,  \* DependencyManager.installed_plugins: name -> version
    dependency_graph,   \* DependencyManager.dependency_graph: nodes and edges
    declared,           \* the dependency names each installed manifest declared
    dep_last,           \* the DependencyManager call just made, and its result
    contexts,           \* PluginSandbox._contexts for the thread: {} or {context}
    regions,            \* the secure_execution regions running, innermost last
    rlimits,            \* the process: its privilege, RLIMIT_CPU and RLIMIT_AS
    builtins,           \* the interpreter's builtins: open and __import__
    sandboxes,          \* the PluginSandbox objects constructed so far
    disk,               \* the registry directory: inodes, registry.json, .tmp
    savers,             \* the _save_registry calls of the tasks, by writer
    search_cache,       \* PluginMarketplace._search_cache: key -> entry
    clock,              \* the time, the repositories, the searches made
    searches            \* the search calls waiting for the repositories

vars == <<insts, plugins, hooks, tasks, walk, ncalls, cbs, emitted, dirs,
          registry_data, registry_file, last, installed_plugins,
          dependency_graph, declared, dep_last, contexts, regions, rlimits,
          builtins, sandboxes, disk, savers, search_cache, clock, searches>>

lifecycleVars == <<insts, walk, ncalls>>
loadVars == <<plugins, hooks, tasks>>
hookVars == <<cbs, emitted>>
installVars == <<dirs, registry_data, registry_file, last>>
depVars == <<installed_plugins, dependency_graph, declared, dep_last>>
sandboxVars == <<contexts, regions, rlimits, builtins, sandboxes>>
saveVars == <<disk, savers>>
marketVars == <<search_cache, clock, searches>>

(***************************************************************************)
(* Values shared by the subsystems.                                        *)
(***************************************************************************)
Names == {"a", "b"}

None == "None"

EmptyMap == [x \in {} |-> None]

\* resource.RLIM_INFINITY, larger than every other limit of the model.
RLIM_INFINITY == 3

\* A privileged process without resource limits: (soft, hard) of each.
UnlimitedProcess ==
    [privileged |-> TRUE,
     RLIMIT_CPU |-> <<RLIM_INFINITY, RLIM_INFINITY>>,
     RLIMIT_AS |-> <<RLIM_INFINITY, RLIM_INFINITY>>]

\* builtins.open and builtins.__import__ of a fresh interpreter.  open is
\* 0 (the original function) or i (the bound method _secure_open of
\* sandboxes[i]); __import__ is the sequence of the sandboxes whose
\* secure_import closures wrap the original function, outermost last.
OriginalBuiltins == [open |-> 0, import |-> <<>>]

\* The tasks that save the registry, and the process each one runs in:
\* tasks 1 and 2 share the event loop of process 1, task 3 is process 2.
Writers == 1 .. 3

ProcessOf(w) == IF w = 3 THEN 2 ELSE 1

\* A serialised registry is written in ChunksPerFile pieces; the content
\* number n written whole is Whole(n).
ChunksPerFile == 2

Whole(n) == [i \in 1 .. ChunksPerFile |-> n]

\* registry.json holds content 0 in inode 1; there is no registry.tmp.
InitialDisk ==
    [inodes |-> [i \in {1} |-> Whole(0)], registry |-> 1, tmp |-> {}]

NoSavers ==
    [w \in Writers |-> [pc |-> "idle", fd |-> 0, data |-> 0, written |-> 0,
                        saves |-> 0, raised |-> FALSE]]

Versions == 1 .. 2

\* A parsed dependency specification: the plugin name and its constraints.
DepSpecs ==
    {[name |-> n, constraints |-> c] :
        n \in Names, c \in {{}, {[op |-> ">=", version |-> 2]}}}

\* manifest.metadata.dependencies: no dependency, or one.
DepLists == {{}} \cup {{d} : d \in DepSpecs}

\* manifest.hooks of the plugins the model installs.
HooksOf(n) == IF n = "a" THEN <<"h1">> ELSE <<"h1", "h2">>

\* PluginManifest: the fields the modelled operations read.
Manifests ==
    {[name |-> n, version |-> v, dependencies |-> d, hooks |-> HooksOf(n)] :
        n \in Names, v \in Versions, d \in DepLists}

\* A plugin directory: its manifest, whether its code holds a critical
\* security finding, and whether all its files are there.
Trees ==
    {[manifest |-> m, critical |-> c, complete |-> TRUE] :
        m \in Manifests, c \in BOOLEAN}

\* PluginRegistry.register: the record created for a manifest (timestamps
\* left out).
plugin_entry(manifest, install_path) ==
    [manifest |-> manifest, install_path |-> install_path,
     status |-> "installed", enabled |-> TRUE, load_count |-> 0,
     errors |-> <<>>]

Range(f) == {f[x] : x \in DOMAIN f}

\* PluginLifecycleStage
PluginLifecycleStage ==
    {"unloaded", "loaded", "configured", "initialized", "active",
     "suspended", "error", "uninstalled"}

\* What a plugin-defined coroutine (initialize, activate, deactivate,
\* cleanup) can do: return True, return False, or raise.
Outcomes == {"true", "false", "raise"}

(***************************************************************************)
(* PluginInterface and Plugin (core.py).                                   *)
(***************************************************************************)
\* PluginInterface.__init__ + Plugin.__init__: a fresh Plugin object.
NewPlugin(manifest) ==
    [name |-> manifest.name, hooks |-> manifest.hooks,
     stage |-> "unloaded", enabled |-> FALSE, error |-> FALSE,
     ninit |-> 0, nact |-> 0, ndeact |-> 0, nclean |-> 0]

set_stage(p, stage) == [p EXCEPT !.stage = stage]

\* The except branch shared by the Plugin methods.
PluginFailed(p) == [set_stage(p, "error") EXCEPT !.error = TRUE]

Plugin_load(p) == [p |-> set_stage(p, "loaded"), ret |-> TRUE]

Plugin_initialize(p, out) ==
    LET q == [p EXCEPT !.ninit = @ + 1]
    IN  CASE out = "true"  -> [p |-> set_stage(q, "initialized"), ret |-> TRUE]
          [] out = "false" -> [p |-> q, ret |-> FALSE]
          [] out = "raise" -> [p |-> PluginFailed(q), ret |-> FALSE]

Plugin_activate(p, out) ==
    LET q == [p EXCEPT !.nact = @ + 1]
    IN  CASE out = "true"  ->
               [p |-> [set_stage(q, "active") EXCEPT !.enabled = TRUE],
                ret |-> TRUE]
          [] out = "false" -> [p |-> q, ret |-> FALSE]
          [] out = "raise" -> [p |-> PluginFailed(q), ret |-> FALSE]

\* Plugin.deactivate forgetting to clear the enabled flag.
Plugin_deactivate_KeepsEnabled(p, out) ==
    LET q == [p EXCEPT !.ndeact = @ + 1]
    IN  CASE out = "true"  -> [p |-> set_stage(q, "suspended"), ret |-> TRUE]
          [] out = "false" -> [p |-> q, ret |-> FALSE]
          [] out = "raise" -> [p |-> PluginFailed(q), ret |-> FALSE]

Plugin_deactivate(p, out) ==
    LET q == [p EXCEPT !.ndeact = @ + 1]
    IN  CASE out = "true"  ->
               [p |-> [set_stage(q, "suspended") EXCEPT !.enabled = FALSE],
                ret |-> TRUE]
          [] out = "false" -> [p |-> q, ret |-> FALSE]
          [] out = "raise" -> [p |-> PluginFailed(q), ret |-> FALSE]

\* The result of cleanup() is discarded: only an exception matters.
Plugin_unload(p, out) ==
    LET q == [p EXCEPT !.nclean = @ + 1]
    IN  IF out = "raise"
        THEN [p |-> PluginFailed(q), ret |-> FALSE]
        ELSE [p |-> [set_stage(q, "unloaded") EXCEPT !.enabled = FALSE],
              ret |-> TRUE]

(***************************************************************************)
(* SpecLifecycle: one Plugin object, its methods called in any order.      *)
(***************************************************************************)
MaxCalls == 6

\* The calls of test_plugin_loading_lifecycle, in order.
WalkOps == <<"load", "initialize", "activate", "deactivate", "unload">>

\* walk = k: the calls so far are exactly the first k calls of WalkOps, every
\* instance operation having returned True; walk = -1: anything else.
WalkNext(op, out) ==
    IF walk >= 0 /\ walk < Len(WalkOps) /\ WalkOps[walk + 1] = op /\ out = "true"
    THEN walk + 1
    ELSE -1

LifecycleStep(op, out, r) ==
    /\ ncalls < MaxCalls
    /\ insts' = [insts EXCEPT ![1] = r.p]
    /\ walk' = WalkNext(op, out)
    /\ ncalls' = ncalls + 1
    /\ UNCHANGED <<marketVars, saveVars, sandboxVars, loadVars, hookVars, installVars, depVars>>

CallLoad == LifecycleStep("load", "true", Plugin_load(insts[1]))

CallInitialize ==
    \E out \in Outcomes :
        LifecycleStep("initialize", out, Plugin_initialize(insts[1], out))

CallActivate ==
    \E out \in Outcomes :
        LifecycleStep("activate", out, Plugin_activate(insts[1], out))

CallDeactivate ==
    \E out \in Outcomes :
        LifecycleStep("deactivate", out, Plugin_deactivate(insts[1], out))

CallUnload ==
    \E out \in Outcomes :
        LifecycleStep("unload", out, Plugin_unload(insts[1], out))

CallSetStage ==
    \E s \in PluginLifecycleStage :
        LifecycleStep("set_stage", "true", [p |-> set_stage(insts[1], s)])

InitOthers ==
    /\ plugins = EmptyMap
    /\ hooks = EmptyMap
    /\ tasks = EmptyMap
    /\ cbs = EmptyMap
    /\ emitted = {}
    /\ dirs = [n \in Names |-> {}]
    /\ registry_data = EmptyMap
    /\ registry_file = EmptyMap
    /\ last = {}
    /\ installed_plugins = EmptyMap
    /\ dependency_graph = [nodes |-> {}, edges |-> {}]
    /\ declared = EmptyMap
    /\ dep_last = {}
    /\ contexts = {}
    /\ regions = <<>>
    /\ rlimits = UnlimitedProcess
    /\ builtins = OriginalBuiltins
    /\ sandboxes = <<>>
    /\ disk = InitialDisk
    /\ savers = NoSavers
    /\ search_cache = EmptyMap
    /\ clock = [now |-> 0, catalog |-> 1, made |-> 0]
    /\ searches = {}

InitLifecycle ==
    /\ insts = <<NewPlugin(CHOOSE m \in Manifests : m.name = "a")>>
    /\ walk = 0
    /\ ncalls = 0
    /\ InitOthers

NextLifecycle ==
    \/ CallLoad
    \/ CallInitialize
    \/ CallActivate
    \/ CallDeactivate
    \/ CallUnload
    \/ CallSetStage

SpecLifecycle == InitLifecycle /\ [][NextLifecycle]_vars

(***************************************************************************)
(* Claims about the lifecycle (SpecLifecycle).                             *)
(***************************************************************************)
\* The legal transition table as the specification gives it.
LegalEdges ==
    {<<"unloaded", "loaded">>, <<"loaded", "configured">>,
     <<"configured", "initialized">>, <<"initialized", "active">>,
     <<"active", "suspended">>, <<"suspended", "active">>}
    \cup {<<s, "error">> : s \in PluginLifecycleStage}

\* C6: every change of a plugin's lifecycle stage, through set_stage or
\* through Plugin.load/initialize/activate/deactivate/unload called in any
\* order from any stage, is an edge of the legal transition table; a
\* transition outside the table leaves the stage unchanged.
C6_OnlyLegalTransitions ==
    [][\A i \in DOMAIN insts \cap DOMAIN insts' :
          insts'[i].stage # insts[i].stage
              => <<insts[i].stage, insts'[i].stage>> \in LegalEdges]_vars

\* The stage after the first k calls of the walk.
WalkStages ==
    <<"unloaded", "loaded", "initialized", "active", "suspended", "unloaded">>

\* C7: for a plugin whose instance operations all return True, load,
\* initialize, activate, deactivate, unload called in that order on a fresh
\* Plugin move the stage unloaded -> loaded -> initialized -> active ->
\* suspended -> unloaded, one stage per call, each call invoking its
\* instance operation exactly once; enabled is true exactly while the stage
\* is active.
C7_LifecycleWalk ==
    walk >= 0 =>
        LET p == insts[1]
        IN  /\ ncalls = walk
            /\ p.stage = WalkStages[walk + 1]
            /\ p.enabled = (p.stage = "active")
            /\ p.error = FALSE
            /\ p.ninit = (IF walk >= 2 THEN 1 ELSE 0)
            /\ p.nact = (IF walk >= 3 THEN 1 ELSE 0)
            /\ p.ndeact = (IF walk >= 4 THEN 1 ELSE 0)
            /\ p.nclean = (IF walk >= 5 THEN 1 ELSE 0)

\* The whole walk has been made.
C7_WalkCompleted == walk = Len(WalkOps) /\ insts[1].stage = "unloaded"

(***************************************************************************)
(* SpecLoad: PluginManager.load_plugin and unload_plugin as coroutines.    *)
(* A coroutine runs without interruption up to the next await of a         *)
(* plugin-defined coroutine (instance.initialize, activate, deactivate,    *)
(* cleanup), where the event loop may run another task.                    *)
(***************************************************************************)
MaxInsts == 2

\* Two coroutines may be in flight at the same time.
Tasks == {1, 2}

Idle == [kind |-> "idle", name |-> None, pc |-> "done", inst |-> 0,
         ret |-> None, log |-> <<>>]

\* A coroutine that has returned `ret`.
Returned(task, ret, steps) ==
    [task EXCEPT !.pc = "done", !.ret = ret, !.log = task.log \o steps]

\* PluginManager._register_hooks: append the plugin to the list of every
\* hook name of its manifest, creating the list when needed.
RECURSIVE RegisterEach(_, _, _)
RegisterEach(hk, names, i) ==
    IF names = <<>>
    THEN hk
    ELSE LET h == Head(names)
             cur == IF h \in DOMAIN hk THEN hk[h] ELSE <<>>
             added == [x \in DOMAIN hk \cup {h} |->
                          IF x = h THEN Append(cur, i) ELSE hk[x]]
         IN  RegisterEach(added, Tail(names), i)

register_hooks(hk, i) == RegisterEach(hk, insts[i].hooks, i)

\* _unregister_hooks leaving every hook list as it is.
unregister_hooks_KeepsAll(hk, i) == hk

\* PluginManager._unregister_hooks: drop the plugin object from the list of
\* every hook name of its manifest.
unregister_hooks(hk, i) ==
    [h \in DOMAIN hk |->
        IF h \in Range(insts[i].hooks)
        THEN SelectSeq(hk[h], LAMBDA p : p # i)
        ELSE hk[h]]

\* load_plugin(name) up to its first await: the already-loaded check, the
\* registry lookup, loader.load (which reads the manifest at the install
\* path and builds the Plugin), validate_plugin, Plugin.load.
StartLoad(t) ==
    \E n \in Names, loaded \in BOOLEAN, valid \in BOOLEAN :
      LET task == [Idle EXCEPT !.kind = "load", !.name = n]
          found == n \in DOMAIN registry_data
          path == IF found THEN registry_data[n].install_path ELSE None
          onDisk == found /\ dirs[path] \cap Trees # {}
          tree == CHOOSE x \in dirs[path] : TRUE
          new == Len(insts) + 1
      IN
      /\ tasks[t].pc = "done"
      /\ IF n \in DOMAIN plugins
         THEN /\ tasks' = [tasks EXCEPT ![t] = Returned(task, "True", <<>>)]
              /\ UNCHANGED insts
         ELSE IF ~found
         THEN /\ tasks' = [tasks EXCEPT ![t] =
                              Returned(task, "False", <<"get_plugin">>)]
              /\ UNCHANGED insts
         ELSE IF ~(onDisk /\ loaded)
         THEN /\ tasks' = [tasks EXCEPT ![t] =
                              Returned(task, "False", <<"get_plugin", "loader">>)]
              /\ UNCHANGED insts
         ELSE /\ Len(insts) < MaxInsts
              /\ IF ~valid
                 THEN /\ insts' = Append(insts, NewPlugin(tree.manifest))
                      /\ tasks' = [tasks EXCEPT ![t] =
                             Returned([task EXCEPT !.inst = new], "False",
                                      <<"get_plugin", "loader", "validate">>)]
                 ELSE /\ insts' = Append(insts,
                             Plugin_load(NewPlugin(tree.manifest)).p)
                      /\ tasks' = [tasks EXCEPT ![t] =
                             [task EXCEPT !.inst = new, !.pc = "initialize",
                                  !.log = <<"get_plugin", "loader", "validate",
                                            "load">>]]
      /\ UNCHANGED <<marketVars, saveVars, sandboxVars, plugins, hooks, walk, ncalls, hookVars, installVars,
                     depVars>>

\* load_plugin resumed after instance.initialize().
ResumeInitialize(t) ==
    \E out \in Outcomes :
      LET task == tasks[t]
          r == Plugin_initialize(insts[task.inst], out)
      IN
      /\ task.kind = "load" /\ task.pc = "initialize"
      /\ insts' = [insts EXCEPT ![task.inst] = r.p]
      /\ tasks' = [tasks EXCEPT ![t] =
            IF r.ret
            THEN [task EXCEPT !.pc = "activate",
                              !.log = Append(@, "initialize")]
            ELSE Returned(task, "False", <<"initialize">>)]
      /\ UNCHANGED <<marketVars, saveVars, sandboxVars, plugins, hooks, walk, ncalls, hookVars, installVars,
                     depVars>>

\* load_plugin resumed after instance.activate(): on success the plugin
\* enters the active set and its hooks are registered.
ResumeActivate(t) ==
    \E out \in Outcomes :
      LET task == tasks[t]
          r == Plugin_activate(insts[task.inst], out)
      IN
      /\ task.kind = "load" /\ task.pc = "activate"
      /\ insts' = [insts EXCEPT ![task.inst] = r.p]
      /\ IF r.ret
         THEN /\ plugins' = [x \in DOMAIN plugins \cup {task.name} |->
                                IF x = task.name THEN task.inst ELSE plugins[x]]
              /\ hooks' = register_hooks(hooks, task.inst)
              /\ tasks' = [tasks EXCEPT ![t] =
                    Returned(task, "True",
                             <<"activate", "add", "register_hooks">>)]
         ELSE /\ UNCHANGED <<marketVars, saveVars, sandboxVars, plugins, hooks>>
              /\ tasks' = [tasks EXCEPT ![t] =
                    Returned(task, "False", <<"activate">>)]
      /\ UNCHANGED <<marketVars, saveVars, sandboxVars, walk, ncalls, hookVars, installVars, depVars>>

\* unload_plugin(name) up to its first await: the not-loaded check and the
\* lookup of the Plugin object, then plugin.deactivate() is awaited.
StartUnload(t) ==
    \E n \in Names :
      LET task == [Idle EXCEPT !.kind = "unload", !.name = n]
      IN
      /\ tasks[t].pc = "done"
      /\ tasks' = [tasks EXCEPT ![t] =
            IF n \notin DOMAIN plugins
            THEN Returned(task, "True", <<>>)
            ELSE [task EXCEPT !.inst = plugins[n], !.pc = "deactivate"]]
      /\ UNCHANGED <<marketVars, saveVars, sandboxVars, insts, plugins, hooks, walk, ncalls, hookVars,
                     installVars, depVars>>

\* unload_plugin resumed after instance.deactivate(); the result of
\* plugin.deactivate() is not looked at.
ResumeDeactivate(t) ==
    \E out \in Outcomes :
      LET task == tasks[t]
          r == Plugin_deactivate(insts[task.inst], out)
      IN
      /\ task.kind = "unload" /\ task.pc = "deactivate"
      /\ insts' = [insts EXCEPT ![task.inst] = r.p]
      /\ tasks' = [tasks EXCEPT ![t] =
            [task EXCEPT !.pc = "cleanup", !.log = Append(@, "deactivate")]]
      /\ UNCHANGED <<marketVars, saveVars, sandboxVars, plugins, hooks, walk, ncalls, hookVars, installVars,
                     depVars>>

\* unload_plugin resumed after instance.cleanup(): the result of
\* plugin.unload() is not looked at; hooks are unregistered and the name is
\* deleted from the active set (a KeyError when another task deleted it
\* first: the call then returns False).
ResumeCleanup(t) ==
    \E out \in Outcomes :
      LET task == tasks[t]
          r == Plugin_unload(insts[task.inst], out)
          steps == <<IF out = "raise" THEN "cleanup raised" ELSE "cleanup",
                     "unregister_hooks">>
      IN
      /\ task.kind = "unload" /\ task.pc = "cleanup"
      /\ insts' = [insts EXCEPT ![task.inst] = r.p]
      /\ hooks' = unregister_hooks(hooks, task.inst)
      /\ IF task.name \in DOMAIN plugins
         THEN /\ plugins' = [x \in DOMAIN plugins \ {task.name} |-> plugins[x]]
              /\ tasks' = [tasks EXCEPT ![t] =
                    Returned(task, "True", Append(steps, "del"))]
         ELSE /\ plugins' = plugins
              /\ tasks' = [tasks EXCEPT ![t] = Returned(task, "False", steps)]
      /\ UNCHANGED <<marketVars, saveVars, sandboxVars, walk, ncalls, hookVars, installVars, depVars>>

\* Plugin "a" is installed and registered; plugin "b" is not.
InitLoad ==
    \E regd \in {{"a"}}, enabled \in BOOLEAN :
      LET m(n) == CHOOSE x \in Manifests :
                      x.name = n /\ x.version = 1 /\ x.dependencies = {}
      IN
      /\ insts = <<>>
      /\ plugins = EmptyMap
      /\ hooks = EmptyMap
      /\ tasks = [t \in Tasks |-> Idle]
      /\ walk = 0
      /\ ncalls = 0
      /\ cbs = EmptyMap
      /\ emitted = {}
      /\ dirs = [n \in Names |->
                    IF n \in regd
                    THEN {[manifest |-> m(n), critical |-> FALSE,
                           complete |-> TRUE]}
                    ELSE {}]
      /\ registry_data = [n \in regd |->
                              [plugin_entry(m(n), n) EXCEPT !.enabled = enabled]]
      /\ registry_file = registry_data
      /\ last = {}
      /\ installed_plugins = EmptyMap
      /\ dependency_graph = [nodes |-> {}, edges |-> {}]
      /\ declared = EmptyMap
      /\ dep_last = {}
      /\ contexts = {}
      /\ regions = <<>>
      /\ rlimits = UnlimitedProcess
      /\ builtins = OriginalBuiltins
      /\ sandboxes = <<>>
      /\ disk = InitialDisk
      /\ savers = NoSavers
      /\ search_cache = EmptyMap
      /\ clock = [now |-> 0, catalog |-> 1, made |-> 0]
      /\ searches = {}

NextLoad ==
    \E t \in Tasks :
        \/ StartLoad(t)
        \/ ResumeInitialize(t)
        \/ ResumeActivate(t)
        \/ StartUnload(t)
        \/ ResumeDeactivate(t)
        \/ ResumeCleanup(t)

SpecLoad == InitLoad /\ [][NextLoad]_vars

(***************************************************************************)
(* Claims about load_plugin and unload_plugin (SpecLoad).                  *)
(***************************************************************************)
\* Task t returns from a call of the given kind in this step.
Finishes(t, kind) ==
    /\ tasks[t].pc # "done"
    /\ tasks'[t].pc = "done"
    /\ tasks'[t].kind = kind

\* The same, for a call that returns from its first step.
FinishesAtOnce(t, kind) ==
    /\ tasks[t].pc = "done"
    /\ tasks'[t] # tasks[t]
    /\ tasks'[t].pc = "done"
    /\ tasks'[t].kind = kind

InNoHookList(hk, i) == \A h \in DOMAIN hk : i \notin Range(hk[h])

NoRepeat(seq) == \A j, k \in DOMAIN seq : seq[j] = seq[k] => j = k

\* The stages of a load_plugin call that succeeds, in order.
FullLoadLog ==
    <<"get_plugin", "loader", "validate", "load", "initialize", "activate",
      "add", "register_hooks">>

\* What C4 says of one step, for the call itself: a load_plugin call that
\* returns True (and was not an already-loaded call) ran every stage once,
\* in order, and its plugin is in the active set and in the list of each of
\* its manifest's hooks; a call in which a stage fails returns False,
\* changes neither the active set nor the hook lists, leaves its plugin
\* object in neither, and runs no stage twice; whatever enters the active
\* set was put there by a call that returns True after all its stages.
C4_CallStep ==
    /\ \A t \in DOMAIN tasks \cap DOMAIN tasks' :
          (Finishes(t, "load") \/ FinishesAtOnce(t, "load")) =>
              LET task == tasks'[t]
                  i == task.inst
              IN  IF task.ret = "True" /\ i # 0
                  THEN /\ task.log = FullLoadLog
                       /\ task.name \in DOMAIN plugins'
                       /\ plugins'[task.name] = i
                       /\ \A h \in Range(insts'[i].hooks) :
                             h \in DOMAIN hooks' /\ i \in Range(hooks'[h])
                  ELSE /\ plugins' = plugins
                       /\ hooks' = hooks
                       /\ task.ret = "False" =>
                             /\ NoRepeat(task.log)
                             /\ SubSeq(FullLoadLog, 1, Len(task.log)) = task.log
                             /\ i # 0 => /\ i \notin Range(plugins')
                                         /\ InNoHookList(hooks', i)
    /\ \A n \in DOMAIN plugins' :
          (n \notin DOMAIN plugins \/ plugins[n] # plugins'[n]) =>
              \E t \in DOMAIN tasks :
                  /\ Finishes(t, "load")
                  /\ tasks'[t].ret = "True"
                  /\ tasks'[t].name = n
                  /\ tasks'[t].inst = plugins'[n]
                  /\ insts'[plugins'[n]].stage = "active"
    /\ hooks' # hooks =>
          \E t \in DOMAIN tasks :
              \/ Finishes(t, "load") /\ tasks'[t].ret = "True"
              \/ Finishes(t, "unload")

\* What C4 says of the name: when a load_plugin call returns False the name
\* is absent from the active set.
C4_NameStep ==
    \A t \in DOMAIN tasks \cap DOMAIN tasks' :
        /\ Finishes(t, "load") \/ FinishesAtOnce(t, "load")
        /\ tasks'[t].ret = "False"
        => tasks'[t].name \notin DOMAIN plugins'

\* C4: load_plugin adds the plugin to the active set and registers its
\* manifest-declared hooks only when every stage succeeded (registry
\* lookup, loader load, instance validation, load, initialize, activate);
\* if any stage fails or returns False, load_plugin returns False, the name
\* is absent from the active set, none of its hooks is registered, and no
\* stage is retried within the call.
C4_LoadAddsOnlyOnSuccess == [][C4_CallStep /\ C4_NameStep]_vars

\* The part of C4 that is about the call itself.
C4_CallLevel == [][C4_CallStep]_vars

\* A load_plugin call has failed at activate, after initialize succeeded.
C4_LoadFailedAtActivate ==
    \E t \in DOMAIN tasks :
        /\ tasks[t].kind = "load" /\ tasks[t].pc = "done"
        /\ tasks[t].ret = "False"
        /\ tasks[t].log = SubSeq(FullLoadLog, 1, 6)
        /\ insts[tasks[t].inst].stage = "initialized"
        /\ tasks[t].name \notin DOMAIN plugins

\* The steps of an unload_plugin call on an active plugin, in order; the
\* deletion from the active set is missing when another unload_plugin call
\* deleted the name first.
UnloadLogs(cleanup) ==
    {<<"deactivate", cleanup, "unregister_hooks", "del">>,
     <<"deactivate", cleanup, "unregister_hooks">>}

\* What C5 says of the moment an unload_plugin call on an active plugin
\* returns, but for the stage.
UnloadedAtReturn(t) ==
    LET task == tasks'[t]
    IN  /\ task.log \in UnloadLogs("cleanup") \cup UnloadLogs("cleanup raised")
        /\ task.name \notin DOMAIN plugins'
        /\ InNoHookList(hooks', task.inst)

\* C5 (as claimed): unload_plugin(name) on an active plugin runs
\* deactivate, cleanup, hook deregistration, removal from the active set in
\* that order; when it returns the instance's stage is unloaded, the name is
\* not in the active set and no hook list contains the plugin, also when
\* deactivate or cleanup returns False or raises.
C5_UnloadAlwaysEndsUnloaded ==
    [][\A t \in DOMAIN tasks \cap DOMAIN tasks' :
          Finishes(t, "unload") =>
              /\ UnloadedAtReturn(t)
              /\ insts'[tasks'[t].inst].stage = "unloaded"]_vars

\* C5 (amended): as above, except that the stage is error, not unloaded,
\* when the instance's cleanup operation raised.
C5_UnloadEndsUnloadedOrError ==
    [][\A t \in DOMAIN tasks \cap DOMAIN tasks' :
          Finishes(t, "unload") =>
              /\ UnloadedAtReturn(t)
              /\ insts'[tasks'[t].inst].stage =
                    IF tasks'[t].log \in UnloadLogs("cleanup raised")
                    THEN "error" ELSE "unloaded"]_vars

\* An unload_plugin call on an active plugin has returned after the
\* instance's deactivate failed, and another after its cleanup raised.
C5_UnloadReturnedAfterFailure ==
    \E t \in DOMAIN tasks :
        /\ tasks[t].kind = "unload" /\ tasks[t].pc = "done"
        /\ tasks[t].inst # 0
        /\ insts[tasks[t].inst].error
        /\ tasks[t].name \notin DOMAIN plugins

\* C8: at every moment, for each plugin name at most one plugin instance
\* is in a stage other than unloaded / uninstalled.
C8_OneLiveInstancePerName ==
    \A n \in Names :
        Cardinality({i \in DOMAIN insts :
                        /\ insts[i].name = n
                        /\ insts[i].stage \notin {"unloaded", "uninstalled"}})
            <= 1

(***************************************************************************)
(* SpecHook: hook callbacks and PluginManager.emit_hook.                   *)
(* Two Plugin objects, for plugins "a" and "b"; each enters and leaves the *)
(* active set the way load_plugin and unload_plugin make it, registers     *)
(* callbacks through PluginInterface.register_hook, and the manager emits  *)
(* hooks.  A callback is named by its plugin and its position in the       *)
(* plugin's callback list, and returns that name.                          *)
(***************************************************************************)
MaxCallbacks == 2

HookNames == {"h1", "h2"}

\* PluginInterface.get_hooks: the callbacks plugin i registered for h.
get_hooks(i, h) == {<<i, k>> : k \in 1 .. cbs[i][h]}

\* PluginInterface.emit_hook from callback k on: the results of the
\* callbacks that did not raise, in order.
RECURSIVE instance_emit_hook(_, _, _, _)
instance_emit_hook(i, h, k, bad) ==
    IF k > cbs[i][h]
    THEN <<>>
    ELSE IF <<i, k>> \in bad
         THEN instance_emit_hook(i, h, k + 1, bad)
         ELSE <<(<<i, k>>)>> \o instance_emit_hook(i, h, k + 1, bad)

\* emit_hook giving up at the first plugin whose emit_hook raises.
RECURSIVE emit_hook_StopsAtFailure(_, _, _, _)
emit_hook_StopsAtFailure(list, h, bad, down) ==
    IF list = <<>>
    THEN <<>>
    ELSE IF Head(list) \in down
         THEN <<>>
         ELSE instance_emit_hook(Head(list), h, 1, bad)
                  \o emit_hook_StopsAtFailure(Tail(list), h, bad, down)

\* PluginManager.emit_hook over the plugins of a hook list: a plugin whose
\* emit_hook raises is skipped, the results of the others are collected.
RECURSIVE emit_hook(_, _, _, _)
emit_hook(list, h, bad, down) ==
    IF list = <<>>
    THEN <<>>
    ELSE (IF Head(list) \in down
          THEN <<>>
          ELSE instance_emit_hook(Head(list), h, 1, bad))
             \o emit_hook(Tail(list), h, bad, down)

\* The manifests of the two plugins.
HookManifest(i) ==
    CHOOSE m \in Manifests :
        /\ m.name = (IF i = 1 THEN "a" ELSE "b")
        /\ m.version = 1
        /\ m.dependencies = {}

\* A load_plugin call that succeeds: a new Plugin object, with no callback
\* yet, is loaded, initialized and activated, put in the active set and
\* registered for the hooks of its manifest.
HookLoad(i) ==
    /\ insts[i].name \notin DOMAIN plugins
    /\ insts' = [insts EXCEPT ![i] =
                    Plugin_activate(
                        Plugin_initialize(
                            Plugin_load(NewPlugin(HookManifest(i))).p,
                            "true").p,
                        "true").p]
    /\ cbs' = [cbs EXCEPT ![i] = [h \in HookNames |-> 0]]
    /\ plugins' = [x \in DOMAIN plugins \cup {insts[i].name} |->
                      IF x = insts[i].name THEN i ELSE plugins[x]]
    /\ hooks' = register_hooks(hooks, i)
    /\ emitted' = {}
    /\ UNCHANGED <<marketVars, saveVars, sandboxVars, tasks, walk, ncalls, installVars, depVars>>

\* An unload_plugin call.
HookUnload(i) ==
    /\ insts[i].name \in DOMAIN plugins
    /\ plugins[insts[i].name] = i
    /\ insts' = [insts EXCEPT ![i] =
                    Plugin_unload(Plugin_deactivate(@, "true").p, "true").p]
    /\ hooks' = unregister_hooks(hooks, i)
    /\ plugins' = [x \in DOMAIN plugins \ {insts[i].name} |-> plugins[x]]
    /\ emitted' = {}
    /\ UNCHANGED <<marketVars, saveVars, sandboxVars, tasks, walk, ncalls, cbs, installVars, depVars>>

\* PluginInterface.register_hook(hook_name, callback).
RegisterHook(i) ==
    \E h \in HookNames :
        /\ cbs[i]["h1"] + cbs[i]["h2"] < MaxCallbacks
        /\ cbs' = [cbs EXCEPT ![i][h] = @ + 1]
        /\ emitted' = {}
        /\ UNCHANGED <<marketVars, saveVars, sandboxVars, insts, loadVars, walk, ncalls, installVars, depVars>>

\* PluginManager.emit_hook(hook_name): of the callbacks and plugins it
\* dispatches to, the callbacks in bad raise, and so does the emit_hook of
\* the plugins in down.
EmitHook ==
    \E h \in HookNames :
        LET list == IF h \in DOMAIN hooks THEN hooks[h] ELSE <<>>
        IN  \E down \in SUBSET Range(list) :
              \E bad \in SUBSET UNION {get_hooks(i, h) : i \in Range(list)} :
                /\ emitted' = {[hook |-> h, list |-> list, bad |-> bad,
                                down |-> down, raised |-> FALSE,
                                results |-> emit_hook(list, h, bad, down)]}
                /\ UNCHANGED <<marketVars, saveVars, sandboxVars, insts, loadVars, walk, ncalls, cbs,
                               installVars, depVars>>

InitHook ==
    /\ insts = <<NewPlugin(HookManifest(1)), NewPlugin(HookManifest(2))>>
    /\ walk = 0
    /\ ncalls = 0
    /\ plugins = EmptyMap
    /\ hooks = EmptyMap
    /\ tasks = EmptyMap
    /\ cbs = [i \in {1, 2} |-> [h \in HookNames |-> 0]]
    /\ emitted = {}
    /\ dirs = [n \in Names |-> {}]
    /\ registry_data = EmptyMap
    /\ registry_file = EmptyMap
    /\ last = {}
    /\ installed_plugins = EmptyMap
    /\ dependency_graph = [nodes |-> {}, edges |-> {}]
    /\ declared = EmptyMap
    /\ dep_last = {}
    /\ contexts = {}
    /\ regions = <<>>
    /\ rlimits = UnlimitedProcess
    /\ builtins = OriginalBuiltins
    /\ sandboxes = <<>>
    /\ disk = InitialDisk
    /\ savers = NoSavers
    /\ search_cache = EmptyMap
    /\ clock = [now |-> 0, catalog |-> 1, made |-> 0]
    /\ searches = {}

NextHook ==
    \/ \E i \in DOMAIN insts : HookLoad(i)
    \/ \E i \in DOMAIN insts : HookUnload(i)
    \/ \E i \in DOMAIN insts : RegisterHook(i)
    \/ EmitHook

SpecHook == InitHook /\ [][NextHook]_vars

(***************************************************************************)
(* Claims about emit_hook (SpecHook).                                      *)
(***************************************************************************)
\* The calls an emit_hook call e is to make: <<position in the hook list,
\* callback>>.
HookCalls(e) ==
    {<<pos, k>> : pos \in DOMAIN e.list, k \in 1 .. MaxCallbacks + 1}

\* The calls that return: the callback is registered and does not raise,
\* and its plugin's emit_hook does not raise.
Answered(e) ==
    {c \in HookCalls(e) :
        /\ c[2] <= cbs[e.list[c[1]]][e.hook]
        /\ e.list[c[1]] \notin e.down
        /\ <<e.list[c[1]], c[2]>> \notin e.bad}

\* The place of an answered call among the results: registration order of
\* the plugins first, then of the callbacks.
Place(e, c) ==
    Cardinality({d \in Answered(e) :
                    d[1] < c[1] \/ (d[1] = c[1] /\ d[2] <= c[2])})

check_single_constraint(v, constraint) ==
    CASE constraint.op = ">=" -> v >= constraint.version
      [] constraint.op = "<=" -> v <= constraint.version
      [] constraint.op = ">"  -> v > constraint.version
      [] constraint.op = "<"  -> v < constraint.version
      [] constraint.op = "==" -> v = constraint.version
      [] constraint.op = "!=" -> v # constraint.version
      [] OTHER -> FALSE

\* _check_version_constraints: every constraint holds.
check_version_constraints(plugin_version, constraints) ==
    \A c \in constraints : check_single_constraint(plugin_version, c)

\* _get_available_versions: a placeholder that knows no version.
get_available_versions(dep_name) == {}

\* _check_single_dependency against the installed plugins inst.
check_single_dependency(inst, dep_name, constraints) ==
    IF dep_name \in DOMAIN inst
    THEN check_version_constraints(inst[dep_name], constraints)
    ELSE \E v \in get_available_versions(dep_name) :
             check_version_constraints(v, constraints)

\* The pairs of nodes joined by a path of at most k edges.
RECURSIVE Paths(_, _)
Paths(edges, k) ==
    IF k <= 1
    THEN edges
    ELSE LET shorter == Paths(edges, k - 1)
         IN  shorter \cup
             {<<x[1][1], x[2][2]>> :
                 x \in {y \in shorter \X edges : y[1][2] = y[2][1]}}

\* nx.simple_cycles finds a cycle (a self-loop is one).
simple_cycles(edges) ==
    \E n \in Names : <<n, n>> \in Paths(edges, Cardinality(Names))

\* _would_create_cycle: a copy of the graph with the new plugin's edges.
would_create_cycle(graph, plugin_name, dependencies) ==
    simple_cycles(graph.edges \cup {<<plugin_name, d>> : d \in dependencies})

\* check_dependencies(manifest).
check_dependencies(inst, graph, manifest) ==
    /\ \A d \in manifest.dependencies :
          check_single_dependency(inst, d.name, d.constraints)
    /\ ~would_create_cycle(graph, manifest.name,
                           {d.name : d \in manifest.dependencies})

\* get_dependent_plugins(name): the successors of name in the graph.
get_dependent_plugins(graph, plugin_name) ==
    IF plugin_name \notin graph.nodes
    THEN {}
    ELSE {e[2] : e \in {x \in graph.edges : x[1] = plugin_name}}

\* get_plugin_dependencies(name): the predecessors of name in the graph.
get_plugin_dependencies(graph, plugin_name) ==
    IF plugin_name \notin graph.nodes
    THEN {}
    ELSE {e[1] : e \in {x \in graph.edges : x[2] = plugin_name}}

\* can_uninstall_plugin(name): there is no dependent.
can_uninstall_plugin(graph, plugin_name) ==
    get_dependent_plugins(graph, plugin_name) = {}

CheckDependencies ==
    \E m \in Manifests :
        /\ dep_last' = {[manifest |-> m,
                         result |-> check_dependencies(installed_plugins,
                                                       dependency_graph, m)]}
        /\ UNCHANGED <<marketVars, saveVars, sandboxVars, insts, loadVars, walk, ncalls, hookVars, installVars,
                       installed_plugins, dependency_graph, declared>>

\* register_installed_plugin(name, version), for the manifest just accepted.
RegisterInstalledPlugin ==
    \E e \in dep_last :
        /\ e.result
        /\ installed_plugins' =
              [x \in DOMAIN installed_plugins \cup {e.manifest.name} |->
                  IF x = e.manifest.name THEN e.manifest.version
                  ELSE installed_plugins[x]]
        /\ dependency_graph' =
              [dependency_graph EXCEPT !.nodes = @ \cup {e.manifest.name}]
        /\ declared' =
              [x \in DOMAIN declared \cup {e.manifest.name} |->
                  IF x = e.manifest.name
                  THEN {d.name : d \in e.manifest.dependencies}
                  ELSE declared[x]]
        /\ dep_last' = {}
        /\ UNCHANGED <<marketVars, saveVars, sandboxVars, insts, loadVars, walk, ncalls, hookVars, installVars>>

\* unregister_plugin(name).
UnregisterPlugin ==
    \E n \in Names :
        /\ installed_plugins' =
              [x \in DOMAIN installed_plugins \ {n} |-> installed_plugins[x]]
        /\ dependency_graph' =
              [nodes |-> dependency_graph.nodes \ {n},
               edges |-> {e \in dependency_graph.edges : n \notin {e[1], e[2]}}]
        /\ declared' = [x \in DOMAIN declared \ {n} |-> declared[x]]
        /\ dep_last' = {}
        /\ UNCHANGED <<marketVars, saveVars, sandboxVars, insts, loadVars, walk, ncalls, hookVars, installVars>>

InitDep ==
    /\ insts = <<>>
    /\ walk = 0
    /\ ncalls = 0
    /\ InitOthers

NextDep ==
    \/ CheckDependencies
    \/ RegisterInstalledPlugin
    \/ UnregisterPlugin

SpecDep == InitDep /\ [][NextDep]_vars

(***************************************************************************)
(* Claims about dependency checking (SpecDep).                             *)
(***************************************************************************)
\* The dependency relation among the installed plugins: plugin, dependency.
InstalledRelation ==
    {p \in Names \X Names : p[1] \in DOMAIN declared /\ p[2] \in declared[p[1]]}

\* That relation once manifest m is added to it.
RelationWith(m) ==
    {p \in InstalledRelation : p[1] # m.name}
        \cup {<<m.name, d.name>> : d \in m.dependencies}

\* C10: check_dependencies rejects a manifest whenever adding the plugin and
\* its dependency edges to the dependency relation of the installed plugins
\* would close a cycle, of any length, so that the dependency relation among
\* installed plugins stays acyclic.
C10_ChecksKeepDependenciesAcyclic ==
    /\ \A e \in dep_last :
          simple_cycles(RelationWith(e.manifest)) => ~e.result
    /\ ~simple_cycles(InstalledRelation)

\* C14: get_dependent_plugins(name) returns exactly the installed plugins
\* that declare a dependency on name, get_plugin_dependencies(name) exactly
\* the plugins name depends on, and can_uninstall_plugin(name) is true
\* exactly when no installed plugin depends on name.
C14_DependencyQueriesAreExact ==
    \A n \in Names :
        /\ get_dependent_plugins(dependency_graph, n) =
              {p[1] : p \in {x \in InstalledRelation : x[2] = n}}
        /\ get_plugin_dependencies(dependency_graph, n) =
              {p[2] : p \in {x \in InstalledRelation : x[1] = n}}
        /\ can_uninstall_plugin(dependency_graph, n) <=>
              ~\E x \in InstalledRelation : x[2] = n

(***************************************************************************)
(* SpecInstall: PluginManager.install_plugin, PluginLoader.install and the *)
(* PluginRegistry, over the install directories, the registry in memory    *)
(* and the registry file.  A new process (every CLI command is one) builds *)
(* its registry from the file.  The variable last holds the call just made.*)
(* SpecLoader: PluginLoader.install called on its own.                     *)
(***************************************************************************)
\* The plugin directories offered for installation.  Of plugin "a": versions
\* 1 and 2 without dependencies, version 1 with a critical finding, and
\* version 1 depending on "b".  Of plugin "b": version 1.
Packages ==
    {t \in Trees :
        \/ /\ t.manifest.name = "a"
           /\ t.manifest.dependencies \in
                 {{}, {[name |-> "b", constraints |-> {}]}}
           /\ (t.critical \/ t.manifest.dependencies # {}) =>
                 t.manifest.version = 1
           /\ ~(t.critical /\ t.manifest.dependencies # {})
        \/ /\ t.manifest.name = "b"
           /\ t.manifest.version = 1
           /\ t.manifest.dependencies = {}
           /\ ~t.critical}

\* A source path: a directory outside data_dir/plugins holding a package, or
\* the install directory of a plugin.
Sources ==
    {[kind |-> "dir", at |-> {t}] : t \in Packages}
        \cup {[kind |-> "installed", at |-> dirs[n]] :
                 n \in {x \in Names : dirs[x] \cap Trees # {}}}

\* The tree at a source path.
TreeAt(source) == CHOOSE t \in source.at : TRUE

\* shutil.copytree(plugin_dir, final_path) that fails part of the way.
PartialCopy(tree) == [tree EXCEPT !.complete = FALSE]

\* PluginLoader.install(source, target_dir, force) on the directories d;
\* returns the directories and the final path (the plugin name) or None.
install(d, source, force, copyOk) ==
    LET tree == TreeAt(source)
        plugin_name == tree.manifest.name
        exists == d[plugin_name] # {}
        removed == [d EXCEPT ![plugin_name] = {}]
    IN  IF exists /\ ~force
        THEN [dirs |-> d, ret |-> None]
        ELSE IF source.kind = "installed"
             THEN [dirs |-> removed, ret |-> plugin_name]
             ELSE IF copyOk
                  THEN [dirs |-> [removed EXCEPT ![plugin_name] = {tree}],
                        ret |-> plugin_name]
                  ELSE [dirs |-> [removed EXCEPT ![plugin_name] =
                                     {PartialCopy(tree)}],
                        ret |-> None]

\* PluginValidator.validate_plugin_package(source): the manifest, unless a
\* critical violation is found.
validate_plugin_package(source) == ~TreeAt(source).critical

\* PluginRegistry.register(manifest, install_path): the entry is put in the
\* registry in memory, then the registry is saved; returns False when the
\* save raises.
register(data, file, manifest, install_path, saveOk) ==
    LET added == [x \in DOMAIN data \cup {manifest.name} |->
                     IF x = manifest.name
                     THEN plugin_entry(manifest, install_path)
                     ELSE data[x]]
    IN  [data |-> added, file |-> IF saveOk THEN added ELSE file,
         ret |-> saveOk]

\* PluginRegistry.list_plugins() without filters.
list_plugins(data) == DOMAIN data

\* PluginManager.install_plugin(source, force).
InstallPlugin ==
    \E source \in Sources, force \in BOOLEAN, copyOk \in BOOLEAN,
       saveOk \in BOOLEAN :
        LET manifest == TreeAt(source).manifest
            valid == validate_plugin_package(source)
            deps == check_dependencies(installed_plugins, dependency_graph,
                                       manifest)
            placed == install(dirs, source, force, copyOk)
            reg == register(registry_data, registry_file, manifest,
                            placed.ret, saveOk)
            failed == IF ~valid THEN "validation"
                      ELSE IF ~deps THEN "dependencies"
                      ELSE IF placed.ret = None THEN "loader"
                      ELSE IF ~reg.ret THEN "registry" ELSE "none"
        IN  /\ dirs' = IF valid /\ deps THEN placed.dirs ELSE dirs
            /\ registry_data' = IF failed \in {"registry", "none"}
                                THEN reg.data ELSE registry_data
            /\ registry_file' = IF failed \in {"registry", "none"}
                                THEN reg.file ELSE registry_file
            /\ last' = {[op |-> "install_plugin", name |-> manifest.name,
                         force |-> force, coincides |-> FALSE, tree |-> {},
                         deps |-> manifest.dependencies, failed |-> failed,
                         fault |-> (failed = "loader" /\ ~copyOk)
                                       \/ failed = "registry",
                         ret |-> IF failed \in {"registry", "none"}
                                 THEN manifest.name ELSE None]}
            /\ UNCHANGED <<marketVars, saveVars, sandboxVars, insts, loadVars, walk, ncalls, hookVars, depVars>>

\* PluginLoader.install(source, data_dir/plugins, force) called on its own.
LoaderInstall ==
    \E source \in Sources, force \in BOOLEAN, copyOk \in BOOLEAN :
        LET placed == install(dirs, source, force, copyOk)
        IN  /\ dirs' = placed.dirs
            /\ last' = {[op |-> "install",
                         name |-> TreeAt(source).manifest.name,
                         force |-> force,
                         coincides |-> source.kind = "installed",
                         tree |-> source.at, deps |-> {},
                         failed |-> IF placed.ret = None THEN "loader"
                                    ELSE "none",
                         fault |-> placed.dirs[TreeAt(source).manifest.name]
                                       \cap Trees = {}
                                   /\ placed.dirs[TreeAt(source).manifest.name]
                                          # {},
                         ret |-> placed.ret]}
            /\ UNCHANGED <<marketVars, saveVars, sandboxVars, insts, loadVars, walk, ncalls, hookVars, depVars,
                           registry_data, registry_file>>

\* PluginRegistry.unregister(plugin_name).
Unregister ==
    \E n \in Names, saveOk \in BOOLEAN :
        LET found == n \in DOMAIN registry_data
            removed == [x \in DOMAIN registry_data \ {n} |-> registry_data[x]]
        IN  /\ registry_data' = removed
            /\ registry_file' = IF found /\ saveOk THEN removed
                                ELSE registry_file
            /\ last' = {[op |-> "unregister", name |-> n, force |-> FALSE,
                         coincides |-> FALSE, tree |-> {}, deps |-> {},
                         failed |-> IF found /\ ~saveOk THEN "registry"
                                    ELSE "none",
                         fault |-> found /\ ~saveOk,
                         ret |-> IF found /\ ~saveOk THEN "False" ELSE "True"]}
            /\ UNCHANGED <<marketVars, saveVars, sandboxVars, insts, loadVars, walk, ncalls, hookVars, depVars,
                           dirs>>

\* The CLI command uninstall(plugin_name, force).  Its first statement
\* awaits the list that get_dependent_plugins returns, which raises a
\* TypeError; the handler of the command reports the error, and the unload
\* of the plugin and registry.unregister are not reached.
CliUninstall ==
    \E n \in Names, force \in BOOLEAN :
        LET dependents == get_dependent_plugins(dependency_graph, n)
            awaited == FALSE
            refused == awaited /\ dependents # {} /\ ~force
            removed == [x \in DOMAIN registry_data \ {n} |-> registry_data[x]]
        IN  /\ registry_data' = IF awaited /\ ~refused THEN removed
                                ELSE registry_data
            /\ registry_file' = IF awaited /\ ~refused THEN removed
                                ELSE registry_file
            /\ plugins' = IF awaited /\ ~refused
                          THEN [x \in DOMAIN plugins \ {n} |-> plugins[x]]
                          ELSE plugins
            /\ last' = {[op |-> "uninstall", name |-> n, force |-> force,
                         coincides |-> FALSE, tree |-> {}, deps |-> {},
                         failed |-> IF awaited THEN "none" ELSE "error",
                         fault |-> FALSE,
                         ret |-> IF awaited THEN None ELSE "raised"]}
            /\ UNCHANGED <<marketVars, saveVars, sandboxVars, insts, hooks, tasks, walk, ncalls, hookVars,
                           depVars, dirs>>

\* A new process: PluginRegistry.__init__ reads the registry file.
Restart ==
    /\ registry_data' = registry_file
    /\ last' = {}
    /\ UNCHANGED <<marketVars, saveVars, sandboxVars, insts, loadVars, walk, ncalls, hookVars, depVars, dirs,
                   registry_file>>

InitInstall ==
    /\ insts = <<>>
    /\ walk = 0
    /\ ncalls = 0
    /\ InitOthers

NextInstall ==
    \/ InstallPlugin
    \/ Unregister
    \/ CliUninstall
    \/ Restart

SpecInstall == InitInstall /\ [][NextInstall]_vars

InitLoader ==
    /\ insts = <<>>
    /\ walk = 0
    /\ ncalls = 0
    /\ InitOthers

NextLoader == LoaderInstall

SpecLoader == InitLoader /\ [][NextLoader]_vars

(***************************************************************************)
(* Claims about installation (SpecInstall).                                *)
(***************************************************************************)
\* C1: install_plugin is atomic: when one of its four stages fails
\* (validation, dependency check, file placement, registration), it reports
\* failure, the registry in memory and on disk is as before the call, and no
\* install directory created by the call remains.
C1_FailedInstallLeavesNothing ==
    [][\A e \in last' :
          (e.op = "install_plugin" /\ e.failed # "none") =>
              /\ e.ret = None
              /\ registry_data' = registry_data
              /\ registry_file' = registry_file
              /\ dirs[e.name] = {} => dirs'[e.name] = {}]_vars

\* C2: when install_plugin returns the plugin's name, the name is a key of
\* the registry and is returned by list_plugins() from then on, until the
\* plugin is unregistered.
C2_InstalledStaysListed ==
    [][/\ \A e \in last' :
             (e.op = "install_plugin" /\ e.ret # None) =>
                 e.ret \in list_plugins(registry_data')
       /\ \A n \in list_plugins(registry_data) \ list_plugins(registry_data') :
             \E e \in last' : e.op = "unregister" /\ e.name = n]_vars

\* C3: PluginLoader.install on a valid source whose targetDir/<pluginName>
\* exists: without force the call fails and the directories are unchanged;
\* with force the call succeeds and targetDir/<pluginName> holds exactly the
\* source tree, whether or not the source path is the install path itself
\* (calls during which copying hit an I/O error left aside).
C3_ForceReplacesInstall ==
    [][\A e \in last' :
          (e.op = "install" /\ dirs[e.name] # {} /\ ~e.fault) =>
              IF e.force
              THEN e.ret # None /\ dirs'[e.name] = e.tree
              ELSE e.ret = None /\ dirs' = dirs]_vars

\* The plugins installed by an install_plugin call that succeeded: a record
\* in the registry, in memory and in the file, and an install directory.
Installed ==
    {n \in DOMAIN registry_data \cap DOMAIN registry_file :
        dirs[n] \cap Trees # {}}

\* C13: once plugin A at version v is installed through install_plugin, the
\* dependency check of a later install_plugin for a plugin that depends on A
\* treats A as installed and passes if and only if v satisfies every
\* constraint of the dependency (always, when there is no constraint).
C13_InstalledDependencyIsChecked ==
    [][\A e \in last' :
          (/\ e.op = "install_plugin"
           /\ e.failed # "validation"
           /\ e.deps # {}
           /\ \A d \in e.deps : d.name \in Installed) =>
              (e.failed # "dependencies" <=>
                  \A d \in e.deps :
                      check_version_constraints(
                          registry_data[d.name].manifest.version,
                          d.constraints))]_vars

\* C15: uninstalling a registered plugin that has dependents, without force,
\* leaves the plugin loaded and registered; uninstalling it with force, or
\* when it has no dependents, unloads it and removes its registry record.
C15_UninstallRefusesOrRemoves ==
    [][\A e \in last' :
          (e.op = "uninstall" /\ e.name \in DOMAIN registry_data) =>
              IF ~e.force /\ \E x \in DOMAIN registry_data :
                     \E d \in registry_data[x].manifest.dependencies :
                         d.name = e.name
              THEN registry_data' = registry_data /\ plugins' = plugins
              ELSE /\ e.name \notin DOMAIN registry_data'
                   /\ e.name \notin DOMAIN plugins']_vars

(***************************************************************************)
(* SpecResolve: DependencyManager.resolve_installation_order on a set of   *)
(* candidate manifests.  A candidate set gives, for each candidate name,   *)
(* the names its dependency specifications parse to.                       *)
(***************************************************************************)
ResolveNames == {"a", "b", "c"}

\* The candidate sets: plugins of distinct names, each with its dependencies.
Candidates ==
    UNION {[S -> SUBSET ResolveNames] : S \in SUBSET ResolveNames}

\* The graph built with the edges pointing from the plugin to the dependency.
resolve_graph_Reversed(cand) ==
    [nodes |-> DOMAIN cand \cup UNION {cand[n] : n \in DOMAIN cand},
     edges |-> {e \in ResolveNames \X ResolveNames :
                   e[1] \in DOMAIN cand /\ e[2] \in cand[e[1]]}]

\* The graph resolve_installation_order builds: a node for each candidate,
\* and add_edge(dep_name, plugin_name) for each of its dependencies (which
\* makes a node of a dependency that is not a candidate).
resolve_graph(cand) ==
    [nodes |-> DOMAIN cand \cup UNION {cand[n] : n \in DOMAIN cand},
     edges |-> {e \in ResolveNames \X ResolveNames :
                   e[2] \in DOMAIN cand /\ e[1] \in cand[e[2]]}]

\* nx.topological_sort: the orders of all the nodes in which every edge goes
\* forward; there is none when the graph has a cycle (NetworkXUnfeasible).
topological_sort(graph) ==
    {order \in [1 .. Cardinality(graph.nodes) -> graph.nodes] :
        /\ \A i, j \in DOMAIN order : order[i] = order[j] => i = j
        /\ \A e \in graph.edges :
              \E i, j \in DOMAIN order :
                  order[i] = e[1] /\ order[j] = e[2] /\ i < j}

\* resolve_installation_order leaving out the nodes that are on a cycle
\* instead of giving up.
resolve_installation_order_Partial(cand) ==
    LET graph == resolve_graph(cand)
        onCycle == {n \in graph.nodes :
                       <<n, n>> \in Paths(graph.edges,
                                          Cardinality(ResolveNames))}
        rest == [nodes |-> graph.nodes \ onCycle,
                 edges |-> {e \in graph.edges :
                               e[1] \notin onCycle /\ e[2] \notin onCycle}]
    IN  topological_sort(rest)

\* resolve_installation_order(plugins): the lists it can return.  The
\* exception of topological_sort on a cycle is not a NetworkXError; the outer
\* handler catches it and returns [].
resolve_installation_order(cand) ==
    LET orders == topological_sort(resolve_graph(cand))
    IN  IF orders = {} THEN {<<>>} ELSE orders

ResolveInstallationOrder ==
    \E cand \in Candidates :
        \E order \in resolve_installation_order(cand) :
            /\ dep_last' = {[op |-> "resolve", plugins |-> cand,
                             order |-> order, raised |-> FALSE]}
            /\ UNCHANGED <<marketVars, saveVars, sandboxVars, insts, loadVars, walk, ncalls, hookVars,
                           installVars, installed_plugins, dependency_graph,
                           declared>>

InitResolve ==
    /\ insts = <<>>
    /\ walk = 0
    /\ ncalls = 0
    /\ InitOthers

NextResolve == ResolveInstallationOrder

SpecResolve == InitResolve /\ [][NextResolve]_vars

(***************************************************************************)
(* Claims about resolve_installation_order (SpecResolve).                  *)
(***************************************************************************)
\* The declared dependencies of a candidate set: plugin, dependency.
Declared(cand) ==
    {e \in ResolveNames \X ResolveNames :
        e[1] \in DOMAIN cand /\ e[2] \in cand[e[1]]}

\* The declared dependencies form a cycle.
Cyclic(cand) ==
    \E n \in ResolveNames :
        <<n, n>> \in Paths(Declared(cand), Cardinality(ResolveNames))

\* The places of a name in a list.
Places(order, n) == {i \in DOMAIN order : order[i] = n}

\* C11: on a candidate set whose declared dependencies form a cycle,
\* resolve_installation_order returns the empty list: no partial order, no
\* exception.
C11_CycleGivesEmptyOrder ==
    \A e \in dep_last :
        Cyclic(e.plugins) => e.order = <<>> /\ ~e.raised

\* resolve_installation_order has answered a candidate set of three plugins
\* with the cycle a -> b -> c -> a.
C11_ResolvedThreeCycle ==
    \E e \in dep_last :
        /\ DOMAIN e.plugins = ResolveNames
        /\ e.plugins["a"] = {"b"}
        /\ e.plugins["b"] = {"c"}
        /\ e.plugins["c"] = {"a"}

\* C12: on a candidate set whose declared dependencies form no cycle,
\* resolve_installation_order returns a list that contains every candidate
\* exactly once and in which every dependency comes before each plugin that
\* depends on it.
C12_DagGivesDependenciesFirst ==
    \A e \in dep_last :
        ~Cyclic(e.plugins) =>
            /\ \A n \in DOMAIN e.plugins :
                  Cardinality(Places(e.order, n)) = 1
            /\ \A d \in Declared(e.plugins) :
                  \A i \in Places(e.order, d[1]), j \in Places(e.order, d[2]) :
                      j < i

\* resolve_installation_order has answered the chain c -> b -> a (c depends
\* on b, b on a) with all three plugins.
C12_ResolvedChain ==
    \E e \in dep_last :
        /\ DOMAIN e.plugins = ResolveNames
        /\ e.plugins["a"] = {}
        /\ e.plugins["b"] = {"a"}
        /\ e.plugins["c"] = {"b"}
        /\ Len(e.order) = 3

(***************************************************************************)
(* SpecConstraint: dependency specifications as text.  A specification is  *)
(* written out character by character, parsed by _parse_dependency, and a  *)
(* version is tested against its constraints by _check_version_constraints.*)
(* A version x.y.z of one-digit parts is the number 100x + 10y + z, whose   *)
(* order is the version order.                                             *)
(***************************************************************************)
Letters == {"p", "q"}

Digits == <<"0", "1", "2", "3", "4", "5", "6", "7", "8", "9">>

DigitChars == {Digits[i] : i \in DOMAIN Digits}

Operators == <<">=", "<=", ">", "<", "==", "!=">>

\* The text of an operator.
OperatorText(op) ==
    CASE op = ">=" -> <<">", "=">>
      [] op = "<=" -> <<"<", "=">>
      [] op = ">"  -> <<">">>
      [] op = "<"  -> <<"<">>
      [] op = "==" -> <<"=", "=">>
      [] op = "!=" -> <<"!", "=">>

\* str.strip(): without the spaces at both ends.
RECURSIVE strip(_)
strip(text) ==
    IF text = <<>> THEN <<>>
    ELSE IF Head(text) = " " THEN strip(Tail(text))
    ELSE IF text[Len(text)] = " " THEN strip(SubSeq(text, 1, Len(text) - 1))
    ELSE text

\* str.split(sep): the pieces between the separators.
RECURSIVE split(_, _)
split(text, sep) ==
    IF \E i \in DOMAIN text : text[i] = sep
    THEN LET i == CHOOSE k \in DOMAIN text :
                      text[k] = sep /\ \A j \in 1 .. k - 1 : text[j] # sep
         IN  <<SubSeq(text, 1, i - 1)>>
                 \o split(SubSeq(text, i + 1, Len(text)), sep)
    ELSE <<text>>

\* version.parse on x.y.z; -1 for a text that is no version (InvalidVersion).
version_parse(text) ==
    LET t == strip(text)
        value(c) == (CHOOSE i \in DOMAIN Digits : Digits[i] = c) - 1
    IN  IF /\ Len(t) = 5
           /\ t[2] = "." /\ t[4] = "."
           /\ {t[1], t[3], t[5]} \subseteq DigitChars
        THEN 100 * value(t[1]) + 10 * value(t[3]) + value(t[5])
        ELSE -1

\* The constraint pattern trying ">" and "<" before ">=" and "<=".
parse_constraint_ShortFirst(text) ==
    LET t == strip(text)
        order == <<">", "<", ">=", "<=", "==", "!=">>
        starts(op) == /\ Len(OperatorText(op)) < Len(t)
                      /\ SubSeq(t, 1, Len(OperatorText(op))) = OperatorText(op)
        found == {i \in DOMAIN order : starts(order[i])}
        first == CHOOSE i \in found : \A j \in found : i <= j
    IN  IF found = {}
        THEN [op |-> "==", version |-> version_parse(t)]
        ELSE [op |-> order[first],
              version |-> version_parse(
                  SubSeq(t, Len(OperatorText(order[first])) + 1, Len(t)))]

\* _check_single_constraint, the parsing: the pattern
\* ^(>=|<=|>|<|==|!=)?(.+)$ takes the first operator of the alternation the
\* text starts with, "==" when there is none, and the rest is the version.
parse_constraint(text) ==
    LET t == strip(text)
        starts(op) == /\ Len(OperatorText(op)) < Len(t)
                      /\ SubSeq(t, 1, Len(OperatorText(op))) = OperatorText(op)
        found == {i \in DOMAIN Operators : starts(Operators[i])}
        first == CHOOSE i \in found : \A j \in found : i <= j
    IN  IF found = {}
        THEN [op |-> "==", version |-> version_parse(t)]
        ELSE [op |-> Operators[first],
              version |-> version_parse(
                  SubSeq(t, Len(OperatorText(Operators[first])) + 1, Len(t)))]

\* _parse_dependency(dep_spec): the pattern ^([a-zA-Z][a-zA-Z0-9_-]*)(.*)?$
\* takes the longest name, and the rest is split at the commas into the
\* constraints, the empty pieces left out.
parse_dependency(dep_spec) ==
    LET t == strip(dep_spec)
        namechar(c) == c \in Letters \cup DigitChars \cup {"_", "-"}
        ends == {k \in DOMAIN t :
                    /\ \A i \in 1 .. k : namechar(t[i])
                    /\ k = Len(t) \/ ~namechar(t[k + 1])}
        k == CHOOSE x \in ends : TRUE
        pieces == split(SubSeq(t, k + 1, Len(t)), ",")
        kept == {i \in DOMAIN pieces : strip(pieces[i]) # <<>>}
        nth(n) == CHOOSE i \in kept :
                      Cardinality({j \in kept : j <= i}) = n
    IN  IF t = <<>> \/ t[1] \notin Letters
        THEN [matched |-> FALSE, name |-> <<>>, constraints |-> <<>>]
        ELSE [matched |-> TRUE, name |-> SubSeq(t, 1, k),
              constraints |->
                  [n \in 1 .. Cardinality(kept) |-> strip(pieces[nth(n)])]]

\* _check_version_constraints(plugin_version, constraints) on texts: a
\* constraint whose version does not parse raises, which gives False.
check_version_constraints_text(plugin_version, constraints) ==
    LET parsed == {parse_constraint(constraints[i]) : i \in DOMAIN constraints}
    IN  /\ \A c \in parsed : c.version >= 0
        /\ check_version_constraints(version_parse(plugin_version), parsed)

\* The plugin names, versions and constraints written in specifications.
SpecPluginNames == {<<"p">>, <<"q", "-", "2">>, <<"p", "_", "q">>}

SpecVersions == {90, 100, 150, 200}

SpecConstraints ==
    {[op |-> Operators[i], version |-> v] :
        i \in DOMAIN Operators, v \in {100, 200}}

SpecConstraintLists ==
    {<<>>} \cup {<<c>> : c \in SpecConstraints}
        \cup {<<c, d>> : c \in SpecConstraints, d \in SpecConstraints}

\* The text of a version.
VersionText(v) ==
    <<Digits[(v \div 100) + 1], ".", Digits[((v \div 10) % 10) + 1], ".",
      Digits[(v % 10) + 1]>>

\* The text of a dependency specification: the name, then the constraints
\* separated by sep.
RECURSIVE ConstraintsText(_, _)
ConstraintsText(constraints, sep) ==
    IF constraints = <<>>
    THEN <<>>
    ELSE OperatorText(Head(constraints).op)
             \o VersionText(Head(constraints).version)
             \o (IF Len(constraints) > 1 THEN sep ELSE <<>>)
             \o ConstraintsText(Tail(constraints), sep)

\* A dependency specification is parsed and a version tested against it,
\* once in a behaviour.
ParseAndCheck ==
    \E name \in SpecPluginNames, constraints \in SpecConstraintLists,
       v \in SpecVersions, sep \in {<<",">>, <<",", " ">>} :
        LET dep_spec == name \o ConstraintsText(constraints, sep)
            parsed == parse_dependency(dep_spec)
        IN  /\ dep_last = {}
            /\ dep_last' =
                  {[op |-> "parse", text |-> dep_spec, name |-> name,
                    constraints |-> constraints, version |-> v,
                    parsed_name |-> parsed.name,
                    parsed_constraints |->
                        [i \in DOMAIN parsed.constraints |->
                            parse_constraint(parsed.constraints[i])],
                    accepted |-> check_version_constraints_text(
                                     VersionText(v), parsed.constraints)]}
            /\ UNCHANGED <<marketVars, saveVars, sandboxVars, insts, loadVars, walk, ncalls, hookVars,
                           installVars, installed_plugins, dependency_graph,
                           declared>>

InitConstraint ==
    /\ insts = <<>>
    /\ walk = 0
    /\ ncalls = 0
    /\ InitOthers

NextConstraint == ParseAndCheck

SpecConstraint == InitConstraint /\ [][NextConstraint]_vars

(***************************************************************************)
(* Claims about dependency specifications (SpecConstraint).                *)
(***************************************************************************)
\* Version v satisfies constraint c in the version order.
Satisfies(v, c) ==
    \/ c.op = ">=" /\ v >= c.version
    \/ c.op = "<=" /\ v <= c.version
    \/ c.op = ">" /\ v > c.version
    \/ c.op = "<" /\ v < c.version
    \/ c.op = "==" /\ v = c.version
    \/ c.op = "!=" /\ v # c.version

\* C16: a dependency specification parses into the plugin name and the
\* constraints it was written with, and a version is accepted if and only if
\* it satisfies every constraint, each one of >=, <=, >, <, ==, != on the
\* version order; ">=1.0.0,<2.0.0" accepts 1.5.0 and rejects 2.0.0 and 0.9.0,
\* and a specification without constraint accepts every version.
C16_SpecParsesAndConstrains ==
    \A e \in dep_last :
        /\ e.parsed_name = e.name
        /\ e.parsed_constraints = e.constraints
        /\ e.accepted <=>
              \A i \in DOMAIN e.constraints :
                  Satisfies(e.version, e.constraints[i])
        /\ e.constraints = <<[op |-> ">=", version |-> 100],
                             [op |-> "<", version |-> 200]>> =>
              /\ e.version = 150 => e.accepted
              /\ e.version \in {200, 90} => ~e.accepted

\* ">=1.0.0,<2.0.0" has been parsed and has accepted 1.5.0.
C16_RangeAcceptedVersion ==
    \E e \in dep_last :
        /\ e.constraints = <<[op |-> ">=", version |-> 100],
                             [op |-> "<", version |-> 200]>>
        /\ e.version = 150
        /\ e.accepted

(***************************************************************************)
(* SpecArchive: installation from an archive file holding plugin "a".  An  *)
(* archive has a format (the end of its file name), a list of entry names  *)
(* and a size; an entry name is a text in which "m" is a manifest file     *)
(* name and "x" any other name.                                            *)
(***************************************************************************)
Formats == {"zip", "tar", "tar.gz", "tar.bz2", "tar.xz"}

EntryNames ==
    {<<"m">>, <<"x">>, <<"x", "/", "m">>, <<".", ".", "/", "x">>,
     <<"/", "x">>, <<"x", "/", ".", ".", "/", "x">>}

Archives ==
    {[format |-> f, entries |-> n, oversize |-> o] :
        f \in Formats, n \in SUBSET EntryNames \ {{}}, o \in BOOLEAN}

\* The plugin directory an archive with a manifest unpacks to.
ArchiveTree ==
    [manifest |-> CHOOSE m \in Manifests :
                      m.name = "a" /\ m.version = 1 /\ m.dependencies = {},
     critical |-> FALSE, complete |-> TRUE]

\* Path(name).suffix: from the last dot on.
suffix(format) ==
    CASE format = "zip" -> ".zip"
      [] format = "tar" -> ".tar"
      [] format = "tar.gz" -> ".gz"
      [] format = "tar.bz2" -> ".bz2"
      [] format = "tar.xz" -> ".xz"

\* _validate_archive_contents looking for absolute paths only.
validate_archive_contents_AbsoluteOnly(file_list) ==
    \A file_name \in file_list : Head(file_name) # "/"

\* _validate_archive_contents(file_list): no name holds ".." or starts
\* with "/" (the names of the model are shorter than 255 characters, and a
\* disallowed extension is only a warning).
validate_archive_contents(file_list) ==
    \A file_name \in file_list :
        /\ ~\E i \in 1 .. Len(file_name) - 1 :
               file_name[i] = "." /\ file_name[i + 1] = "."
        /\ Head(file_name) # "/"

\* _extract_package(package_path): whether the archive was unpacked
\* (extractall), whether a plugin root was found in it, whether the
\* extraction directory was made (after the size check, before anything
\* else), and whether the root found is the extraction directory itself.
extract_package(archive) ==
    LET supported == archive.format \in {"zip", "tar.gz", "tar.bz2", "tar.xz"}
        safe == validate_archive_contents(archive.entries)
        unpacked == ~archive.oversize /\ supported /\ safe
        root == \E n \in archive.entries : n[Len(n)] = "m"
    IN  [written |-> IF unpacked THEN archive.entries ELSE {},
         found |-> unpacked /\ root,
         made |-> ~archive.oversize,
         top |-> <<"m">> \in archive.entries]

\* PluginLoader.install(source, target_dir, force) on an archive file: the
\* entries written to disk, the final path or None, and whether the
\* extraction directory is there when the call returns (it is removed
\* after the copy, when the plugin root is the extraction directory).
install_archive(d, archive, force, copyOk) ==
    LET package == suffix(archive.format) \in
                       {".zip", ".tar", ".tar.gz", ".tar.bz2"}
        extracted == extract_package(archive)
        exists == d["a"] # {}
    IN  IF ~package
        THEN [dirs |-> d, written |-> {}, ret |-> None, temp |-> FALSE]
        ELSE IF ~extracted.found \/ (exists /\ ~force)
        THEN [dirs |-> d, written |-> extracted.written, ret |-> None,
              temp |-> extracted.made]
        ELSE IF ~copyOk
        THEN [dirs |-> [d EXCEPT !["a"] = {PartialCopy(ArchiveTree)}],
              written |-> extracted.written, ret |-> None, temp |-> TRUE]
        ELSE [dirs |-> [d EXCEPT !["a"] = {ArchiveTree}],
              written |-> extracted.written, ret |-> "a",
              temp |-> ~extracted.top]

\* PluginValidator.validate_plugin_package(source) on an archive file: the
\* manifest is read from the archive root, then _validate_package_structure
\* calls _validate_archive_structure, a method the class does not have; the
\* AttributeError becomes a critical violation.
validate_archive_package(archive) ==
    LET manifest == /\ archive.format # "tar"
                    /\ <<"m">> \in archive.entries
        critical == TRUE
    IN  manifest /\ ~critical

\* PluginLoader.install called on an archive.
LoaderInstallArchive ==
    \E archive \in Archives, copyOk \in BOOLEAN :
        LET placed == install_archive(dirs, archive, FALSE, copyOk)
        IN  /\ last = {}
            /\ dirs' = placed.dirs
            /\ last' = {[op |-> "install", archive |-> archive,
                         written |-> placed.written, ret |-> placed.ret,
                         temp |-> placed.temp]}
            /\ UNCHANGED <<marketVars, saveVars, sandboxVars, insts, loadVars, walk, ncalls, hookVars, depVars,
                           registry_data, registry_file>>

\* PluginManager.install_plugin called on an archive.
InstallPluginArchive ==
    \E archive \in Archives, saveOk \in BOOLEAN, copyOk \in BOOLEAN :
        LET valid == validate_archive_package(archive)
            deps == check_dependencies(installed_plugins, dependency_graph,
                                       ArchiveTree.manifest)
            placed == install_archive(dirs, archive, FALSE, copyOk)
            reached == valid /\ deps
            reg == register(registry_data, registry_file,
                            ArchiveTree.manifest, placed.ret, saveOk)
            done == reached /\ placed.ret # None
        IN  /\ last = {}
            /\ dirs' = IF reached THEN placed.dirs ELSE dirs
            /\ registry_data' = IF done THEN reg.data ELSE registry_data
            /\ registry_file' = IF done THEN reg.file ELSE registry_file
            /\ last' = {[op |-> "install_plugin", archive |-> archive,
                         written |-> IF reached THEN placed.written ELSE {},
                         ret |-> IF done THEN "a" ELSE None]}
            /\ UNCHANGED <<marketVars, saveVars, sandboxVars, insts, loadVars, walk, ncalls, hookVars, depVars>>

InitArchive ==
    /\ insts = <<>>
    /\ walk = 0
    /\ ncalls = 0
    /\ InitOthers

NextArchive ==
    \/ LoaderInstallArchive
    \/ InstallPluginArchive

SpecArchive == InitArchive /\ [][NextArchive]_vars

(***************************************************************************)
(* Claims about archives (SpecArchive).                                    *)
(***************************************************************************)
\* An entry name with a parent-directory segment, or absolute.
Unsafe(entry) ==
    LET segments == split(entry, "/")
    IN  \/ \E i \in DOMAIN segments : segments[i] = <<".", ".">>
        \/ Head(entry) = "/"

\* C17: installation from an archive whose entry list holds an entry with a
\* parent-directory segment or an absolute path fails, and no entry of the
\* archive is written to disk.
C17_UnsafeArchiveIsNotExtracted ==
    \A e \in last :
        (\E entry \in e.archive.entries : Unsafe(entry)) =>
            e.ret = None /\ e.written = {}

\* PluginLoader.install has refused a zip archive under the size limit with
\* a manifest at its root and the entry "../x".
C17_RefusedTraversalEntry ==
    \E e \in last :
        /\ e.op = "install"
        /\ e.archive.format = "zip"
        /\ ~e.archive.oversize
        /\ {<<"m">>, <<".", ".", "/", "x">>} \subseteq e.archive.entries
        /\ e.ret = None

\* C18: install_plugin on an archive of each of the formats zip, tar.gz,
\* tar.bz2 and tar.xz that holds a valid plugin with its manifest at the
\* archive root succeeds and installs the plugin.
C18_EveryFormatInstalls ==
    \A e \in last :
        (/\ e.op = "install_plugin"
         /\ e.archive.format \in {"zip", "tar.gz", "tar.bz2", "tar.xz"}
         /\ e.archive.entries = {<<"m">>, <<"x">>}
         /\ ~e.archive.oversize) =>
            e.ret = "a" /\ dirs["a"] = {ArchiveTree}

(***************************************************************************)
(* SpecSandbox: an enabled PluginSandbox and the code of one thread.  A    *)
(* path is the sequence of its segments below the file system root.        *)
(***************************************************************************)
MaxRegions == 2

MaxViolations == 2

\* self.temp_dir and self.allowed_paths of the sandbox.
TempDir == <<"tmp">>

AllowedPaths == {<<"data">>}

\* create_temp_directory(plugin_name): temp_dir / plugin_<name>_<time>.
create_temp_directory(plugin_name) ==
    TempDir \o <<IF plugin_name = "a" THEN "plugin_a" ELSE "plugin_b">>

Files ==
    {<<"tmp", "plugin_a", "f">>, <<"tmp", "plugin_b", "f">>, <<"tmp", "f">>,
     <<"data", "f">>, <<"home", "f">>,
     <<"tmp", "plugin_a", "..", "plugin_b", "f">>,
     <<"tmp", "plugin_a", "..", "..", "home", "f">>}

Modes ==
    {<<"r">>, <<"w">>, <<"a">>, <<"x">>, <<"r", "+">>, <<"w", "b">>,
     <<"x", "b">>}

PermissionSets ==
    {{"file_read"}, {"temp_write"}, {"file_read", "temp_write"},
     {"file_read", "file_write"}}

\* Path.resolve() of an absolute path without symbolic links.
RECURSIVE resolve(_)
resolve(path) ==
    IF path = <<>>
    THEN <<>>
    ELSE LET front == resolve(SubSeq(path, 1, Len(path) - 1))
             name == path[Len(path)]
         IN  IF name # ".."
             THEN Append(front, name)
             ELSE IF front = <<>>
             THEN <<>>
             ELSE SubSeq(front, 1, Len(front) - 1)

\* _is_path_under(path, parent): path.resolve().relative_to(parent.resolve()).
is_path_under(path, parent) ==
    LET p == resolve(path)
        q == resolve(parent)
    IN  Len(q) <= Len(p) /\ SubSeq(p, 1, Len(q)) = q

is_in_temp_directory(file_path) == is_path_under(file_path, TempDir)

is_path_allowed(file_path) ==
    \/ is_in_temp_directory(file_path)
    \/ \E allowed_path \in AllowedPaths : is_path_under(file_path, allowed_path)

\* 'c' in mode.
InMode(c, mode) == \E i \in DOMAIN mode : mode[i] = c

\* _secure_open(file, mode) with the thread's current context: "opened"
\* when the original open is called, "PermissionError" otherwise.
secure_open(context, file, mode) ==
    IF context = {}
    THEN "opened"
    ELSE LET c == CHOOSE x \in context : TRUE
             file_path == resolve(file)
             has_permission(permission) == permission \in c.permissions
             write == InMode("w", mode) \/ InMode("a", mode) \/ InMode("+", mode)
         IN  IF write /\ ~has_permission("file_write")
                      /\ ~has_permission("temp_write")
             THEN "PermissionError"
             ELSE IF write /\ has_permission("temp_write")
                           /\ ~has_permission("file_write")
                           /\ ~is_in_temp_directory(file_path)
             THEN "PermissionError"
             ELSE IF ~write /\ ~has_permission("file_read")
             THEN "PermissionError"
             ELSE IF ~is_path_allowed(file_path)
             THEN "PermissionError"
             ELSE "opened"

\* self.max_cpu_time and self.max_memory of the sandbox.
max_cpu_time == 2

max_memory == 2

\* The limits a process can start with: soft <= hard, below the limits of
\* the sandbox or infinite.
LimitPairs == {<<1, 1>>, <<1, RLIM_INFINITY>>, <<RLIM_INFINITY, RLIM_INFINITY>>}

Processes ==
    {[privileged |-> p, RLIMIT_CPU |-> c, RLIMIT_AS |-> m] :
         p \in BOOLEAN, c \in LimitPairs,
         m \in {<<1, 1>>, <<RLIM_INFINITY, RLIM_INFINITY>>}}

\* resource.setrlimit(which, limits) in the process: ValueError when the
\* soft limit exceeds the hard one, or when a process without privilege
\* raises its hard limit.
setrlimit(process, which, limits) ==
    LET hard == IF which = "RLIMIT_CPU"
                THEN process.RLIMIT_CPU[2] ELSE process.RLIMIT_AS[2]
    IN  IF limits[1] > limits[2] \/ (~process.privileged /\ limits[2] > hard)
        THEN [raised |-> TRUE, process |-> process]
        ELSE [raised |-> FALSE,
              process |-> IF which = "RLIMIT_CPU"
                          THEN [process EXCEPT !.RLIMIT_CPU = limits]
                          ELSE [process EXCEPT !.RLIMIT_AS = limits]]

\* try: setrlimit(RLIMIT_CPU, cpu); setrlimit(RLIMIT_AS, as)
\* except Exception: a warning.
set_then_set(process, cpu, as) ==
    LET first == setrlimit(process, "RLIMIT_CPU", cpu)
    IN  IF first.raised
        THEN process
        ELSE setrlimit(first.process, "RLIMIT_AS", as).process

set_resource_limits(process) ==
    set_then_set(process, <<max_cpu_time, max_cpu_time>>,
                 <<max_memory, max_memory>>)

reset_resource_limits(process) ==
    set_then_set(process, <<RLIM_INFINITY, RLIM_INFINITY>>,
                 <<RLIM_INFINITY, RLIM_INFINITY>>)

\* secure_execution(plugin_name, permissions) up to its yield.  The region
\* remembers the limits the process had when it was entered.
EnterSecureExecution ==
    \E plugin_name \in Names, permissions \in PermissionSets :
        /\ Len(regions) < MaxRegions
        /\ contexts' = {[plugin_name |-> plugin_name,
                         permissions |-> permissions, violations |-> 0]}
        /\ regions' = Append(regions, [plugin_name |-> plugin_name,
                                       permissions |-> permissions,
                                       entered_with |-> rlimits])
        /\ rlimits' = set_resource_limits(rlimits)
        /\ last' = {}
        /\ UNCHANGED <<marketVars, saveVars, lifecycleVars, loadVars, hookVars, depVars, dirs,
                       registry_data, registry_file, builtins, sandboxes>>

\* The finally block of the innermost secure_execution, reached from the
\* end of the body or from an exception in it.
ExitSecureExecution ==
    /\ regions # <<>>
    /\ contexts' = {}
    /\ regions' = SubSeq(regions, 1, Len(regions) - 1)
    /\ rlimits' = reset_resource_limits(rlimits)
    /\ last' = {}
    /\ UNCHANGED <<marketVars, saveVars, lifecycleVars, loadVars, hookVars, depVars, dirs,
                   registry_data, registry_file, builtins, sandboxes>>

\* The thread calls open(file, mode); builtins.open is _secure_open.
SecureOpen ==
    \E file \in Files, mode \in Modes :
        LET result == secure_open(contexts, file, mode)
        IN  /\ \A c \in contexts : c.violations < MaxViolations
            /\ contexts' =
                   IF result = "opened"
                   THEN contexts
                   ELSE {[c EXCEPT !.violations = @ + 1] : c \in contexts}
            /\ last' = {[op |-> "open", regions |-> regions, file |-> file,
                         mode |-> mode, result |-> result]}
            /\ UNCHANGED <<marketVars, saveVars, lifecycleVars, loadVars, hookVars, depVars, dirs,
                           registry_data, registry_file, regions, rlimits,
                           builtins, sandboxes>>

InitSandbox ==
    /\ insts = <<>>
    /\ walk = 0
    /\ ncalls = 0
    /\ plugins = EmptyMap
    /\ hooks = EmptyMap
    /\ tasks = EmptyMap
    /\ cbs = EmptyMap
    /\ emitted = {}
    /\ dirs = [n \in Names |-> {}]
    /\ registry_data = EmptyMap
    /\ registry_file = EmptyMap
    /\ last = {}
    /\ installed_plugins = EmptyMap
    /\ dependency_graph = [nodes |-> {}, edges |-> {}]
    /\ declared = EmptyMap
    /\ dep_last = {}
    /\ contexts = {}
    /\ regions = <<>>
    /\ rlimits \in Processes
    /\ builtins = OriginalBuiltins
    /\ sandboxes = <<>>
    /\ disk = InitialDisk
    /\ savers = NoSavers
    /\ search_cache = EmptyMap
    /\ clock = [now |-> 0, catalog |-> 1, made |-> 0]
    /\ searches = {}

NextSandbox ==
    \/ EnterSecureExecution
    \/ ExitSecureExecution
    \/ SecureOpen

SpecSandbox == InitSandbox /\ [][NextSandbox]_vars

(***************************************************************************)
(* Claims about the sandbox (SpecSandbox).                                 *)
(***************************************************************************)
\* The innermost region running when the call e was made.
RegionOf(e) == e.regions[Len(e.regions)]

\* A mode that opens for writing: w, a, x, or any mode with +.
WriteMode(mode) == mode[1] \in {"w", "a", "x"} \/ InMode("+", mode)

\* C19: inside a secure-execution region granted exactly {file_read}, every
\* open for writing (mode w, a, x, or any mode with +) raises a permission
\* error and opens no file.
C19_ReadOnlyRegionCannotWrite ==
    \A e \in last :
        (/\ e.regions # <<>>
         /\ RegionOf(e).permissions = {"file_read"}
         /\ WriteMode(e.mode)) =>
            e.result = "PermissionError"

\* C20: inside a secure-execution region granted temp_write but not
\* file_write, an open for writing succeeds only on a path under the
\* plugin's own temp directory.
C20_TempWriteStaysInOwnDirectory ==
    \A e \in last :
        (/\ e.regions # <<>>
         /\ "temp_write" \in RegionOf(e).permissions
         /\ "file_write" \notin RegionOf(e).permissions
         /\ WriteMode(e.mode)
         /\ e.result = "opened") =>
            is_path_under(e.file, create_temp_directory(RegionOf(e).plugin_name))

(***************************************************************************)
(* SpecRegistry: PluginRegistry with its indexes and its file.  Here       *)
(* registry_data is the whole dictionary (plugins and index) and           *)
(* registry_file is {} (no file) or {the content of registry.json}.        *)
(***************************************************************************)
RegTypes == {"template", "provider"}

Authors == {"x", "y"}

\* The manifests given to register: name, type, author, keywords and
\* dependency specifications (no categories).  Plugin a comes with one
\* manifest and the four that differ from it in one attribute, plugin b
\* with one manifest.
BaseManifest ==
    [name |-> "a", plugin_type |-> "template", author |-> "x",
     keywords |-> <<>>, dependencies |-> <<>>]

RegManifests ==
    {BaseManifest,
     [BaseManifest EXCEPT !.plugin_type = "provider"],
     [BaseManifest EXCEPT !.author = "y"],
     [BaseManifest EXCEPT !.keywords = <<"AWS">>],
     [BaseManifest EXCEPT !.dependencies = <<"b">>],
     [BaseManifest EXCEPT !.name = "b", !.author = "y"]}

\* keyword.lower()
lower(keyword) == IF keyword = "AWS" THEN "aws" ELSE keyword

ProviderWords == {"aws", "azure", "gcp", "google", "microsoft"}

\* registry_data as __init__ builds it.
EmptyRegistry ==
    [plugins |-> EmptyMap,
     index |-> [by_type |-> EmptyMap, by_author |-> EmptyMap,
                by_provider |-> EmptyMap, dependencies |-> EmptyMap]]

\* d[k] = v, and del d[k].
Put(d, k, v) == [x \in DOMAIN d \cup {k} |-> IF x = k THEN v ELSE d[x]]

Drop(d, k) == [x \in DOMAIN d \ {k} |-> d[x]]

\* index[key] gets the name appended unless it is there.
IndexUnder(index, key, plugin_name) ==
    LET list == IF key \in DOMAIN index THEN index[key] ELSE <<>>
    IN  Put(index, key, IF plugin_name \in Range(list)
                        THEN list
                        ELSE Append(list, plugin_name))

RECURSIVE IndexUnderEach(_, _, _)
IndexUnderEach(index, keys, plugin_name) ==
    IF keys = <<>>
    THEN index
    ELSE IndexUnderEach(IndexUnder(index, Head(keys), plugin_name),
                        Tail(keys), plugin_name)

\* The lower-cased keywords that name a provider.
providers_of(manifest) ==
    LET lowered == [i \in DOMAIN manifest.keywords |->
                       lower(manifest.keywords[i])]
    IN  SelectSeq(lowered, LAMBDA k : k \in ProviderWords)

\* _update_indexes(manifest)
update_indexes(index, manifest) ==
    [by_type |-> IndexUnder(index.by_type, manifest.plugin_type,
                            manifest.name),
     by_author |-> IndexUnder(index.by_author, manifest.author,
                              manifest.name),
     by_provider |-> IndexUnderEach(index.by_provider,
                                    providers_of(manifest), manifest.name),
     dependencies |-> IF manifest.dependencies # <<>>
                      THEN Put(index.dependencies, manifest.name,
                               manifest.dependencies)
                      ELSE index.dependencies]

\* list.remove(plugin_name) when the name is in the list.
Without(list, plugin_name) == SelectSeq(list, LAMBDA n : n # plugin_name)

\* _remove_from_indexes(plugin_name, manifest_dict)
remove_from_indexes(index, plugin_name, manifest_dict) ==
    [by_type |-> [t \in DOMAIN index.by_type |->
                     IF t = manifest_dict.plugin_type
                     THEN Without(index.by_type[t], plugin_name)
                     ELSE index.by_type[t]],
     by_author |-> [u \in DOMAIN index.by_author |->
                       IF u = manifest_dict.author
                       THEN Without(index.by_author[u], plugin_name)
                       ELSE index.by_author[u]],
     by_provider |-> [q \in DOMAIN index.by_provider |->
                         Without(index.by_provider[q], plugin_name)],
     dependencies |-> Drop(index.dependencies, plugin_name)]

\* What registry.json can hold: a registry written by _save_registry, or
\* text that is not JSON, a JSON array, a JSON number, or a JSON object
\* without the keys version, plugins and index.
BadKinds == {"not_json", "array", "number", "lacking"}

BadFile(kind) == [kind |-> kind, data |-> EmptyRegistry]

\* _save_registry writing only the plugins.
save_registry_PluginsOnly(data) ==
    [kind |-> "registry",
     data |-> [data EXCEPT !.index = EmptyRegistry.index]]

\* _save_registry: json.dumps of registry_data, written to a temporary file
\* that replaces registry.json.
save_registry(data) == [kind |-> "registry", data |-> data]

\* _validate_registry_structure(data): all(key in data for key in
\* required_keys); "in" on a number raises TypeError.
validate_registry_structure(content) ==
    CASE content.kind = "registry" -> "True"
      [] content.kind \in {"array", "lacking"} -> "False"
      [] content.kind = "number" -> "TypeError"

\* _load_registry() in __init__: the registry in memory, the file, the
\* backup written, and whether the constructor raised.
load_registry(file) ==
    LET fresh == [data |-> EmptyRegistry,
                  file |-> {save_registry(EmptyRegistry)},
                  backup |-> file, raised |-> FALSE]
    IN  IF file = {}
        THEN [fresh EXCEPT !.backup = {}]
        ELSE LET content == CHOOSE c \in file : TRUE
             IN  IF content.kind = "not_json"
                 THEN fresh
                 ELSE IF validate_registry_structure(content) = "True"
                 THEN [data |-> content.data, file |-> file, backup |-> {},
                       raised |-> FALSE]
                 ELSE IF validate_registry_structure(content) = "False"
                 THEN fresh
                 ELSE [data |-> EmptyRegistry, file |-> file, backup |-> {},
                       raised |-> TRUE]

\* PluginRegistry.register(manifest, install_path); saveOk: _save_registry
\* does not raise.
registry_register(data, file, manifest, install_path, saveOk) ==
    LET new == [plugins |-> Put(data.plugins, manifest.name,
                                plugin_entry(manifest, install_path)),
                index |-> update_indexes(data.index, manifest)]
    IN  [data |-> new,
         file |-> IF saveOk THEN {save_registry(new)} ELSE file,
         ret |-> saveOk]

\* PluginRegistry.unregister(plugin_name)
registry_unregister(data, file, plugin_name, saveOk) ==
    IF plugin_name \notin DOMAIN data.plugins
    THEN [data |-> data, file |-> file, ret |-> TRUE]
    ELSE LET manifest_dict == data.plugins[plugin_name].manifest
             new == [plugins |-> Drop(data.plugins, plugin_name),
                     index |-> remove_from_indexes(data.index, plugin_name,
                                                   manifest_dict)]
         IN  [data |-> new,
              file |-> IF saveOk THEN {save_registry(new)} ELSE file,
              ret |-> saveOk]

\* PluginRegistry.list_plugins(plugin_type, author, provider, enabled_only):
\* the names of the returned list, or a KeyError.
registry_list_plugins(data, plugin_type, author, provider, enabled_only) ==
    LET get(index, key) == IF key \in DOMAIN index
                           THEN Range(index[key])
                           ELSE {}
        names == IF plugin_type # None
                   THEN get(data.index.by_type, plugin_type)
                   ELSE IF author # None
                   THEN get(data.index.by_author, author)
                   ELSE IF provider # None
                   THEN get(data.index.by_provider, lower(provider))
                   ELSE DOMAIN data.plugins
    IN  IF ~enabled_only
        THEN [raised |-> FALSE, plugins |-> names]
        ELSE IF names \subseteq DOMAIN data.plugins
        THEN [raised |-> FALSE,
              plugins |-> {n \in names : data.plugins[n].enabled}]
        ELSE [raised |-> TRUE, plugins |-> {}]

\* registry.json holds what the registry in memory holds.
Saved == registry_file = {save_registry(registry_data)}

\* The process that held the registry ended when its constructor raised.
Crashed == \E e \in last : e.op = "construct" /\ e.raised

RegistryRegister ==
    \E manifest \in RegManifests, saveOk \in BOOLEAN :
        LET reg == registry_register(registry_data, registry_file, manifest,
                                     manifest.name, saveOk)
        IN  /\ ~Crashed
            /\ saveOk \/ Saved
            /\ registry_data' = reg.data
            /\ registry_file' = reg.file
            /\ last' = {[op |-> "register", name |-> manifest.name,
                         ret |-> reg.ret]}
            /\ UNCHANGED <<marketVars, saveVars, sandboxVars, lifecycleVars, loadVars, hookVars,
                           depVars, dirs>>

RegistryUnregister ==
    \E plugin_name \in Names, saveOk \in BOOLEAN :
        LET reg == registry_unregister(registry_data, registry_file,
                                       plugin_name, saveOk)
        IN  /\ ~Crashed
            /\ saveOk \/ Saved
            /\ registry_data' = reg.data
            /\ registry_file' = reg.file
            /\ last' = {[op |-> "unregister", name |-> plugin_name,
                         ret |-> reg.ret]}
            /\ UNCHANGED <<marketVars, saveVars, sandboxVars, lifecycleVars, loadVars, hookVars,
                           depVars, dirs>>

\* PluginRegistry.disable_plugin(plugin_name)
DisablePlugin ==
    \E plugin_name \in DOMAIN registry_data.plugins :
        LET new == [registry_data EXCEPT
                        !.plugins[plugin_name].enabled = FALSE]
        IN  /\ ~Crashed
            /\ registry_data' = new
            /\ registry_file' = {save_registry(new)}
            /\ last' = {[op |-> "disable", name |-> plugin_name,
                         ret |-> TRUE]}
            /\ UNCHANGED <<marketVars, saveVars, sandboxVars, lifecycleVars, loadVars, hookVars,
                           depVars, dirs>>

ListPlugins ==
    \E plugin_type \in {"template", None}, author \in {"x", None},
       provider \in {"AWS", None}, enabled_only \in BOOLEAN :
        /\ ~Crashed
        /\ provider = None \/ (plugin_type = None /\ author = None)
        /\ last' = {[op |-> "list", plugin_type |-> plugin_type,
                     author |-> author, provider |-> provider,
                     enabled_only |-> enabled_only,
                     ret |-> registry_list_plugins(registry_data, plugin_type,
                                                   author, provider,
                                                   enabled_only)]}
        /\ UNCHANGED <<marketVars, saveVars, sandboxVars, lifecycleVars, loadVars, hookVars,
                       depVars, dirs, registry_data, registry_file>>

\* Something other than the registry writes registry.json.
CorruptFile ==
    \E kind \in BadKinds :
        /\ registry_file' = {BadFile(kind)}
        /\ last' = IF Crashed THEN last ELSE {[op |-> "corrupt"]}
        /\ UNCHANGED <<marketVars, saveVars, sandboxVars, lifecycleVars, loadVars, hookVars,
                       depVars, dirs, registry_data>>

\* A new process: PluginRegistry(registry_file).
Construct ==
    LET loaded == load_registry(registry_file)
    IN  /\ registry_data' = loaded.data
        /\ registry_file' = loaded.file
        /\ last' = {[op |-> "construct", found |-> registry_file,
                     backup |-> loaded.backup, raised |-> loaded.raised,
                     registered |-> {e.name : e \in
                         {x \in last : x.op = "register" /\ x.ret}}]}
        /\ UNCHANGED <<marketVars, saveVars, sandboxVars, lifecycleVars, loadVars, hookVars,
                       depVars, dirs>>

InitRegistry ==
    /\ insts = <<>>
    /\ walk = 0
    /\ ncalls = 0
    /\ plugins = EmptyMap
    /\ hooks = EmptyMap
    /\ tasks = EmptyMap
    /\ cbs = EmptyMap
    /\ emitted = {}
    /\ dirs = [n \in Names |-> {}]
    /\ registry_data = EmptyRegistry
    /\ registry_file = {save_registry(EmptyRegistry)}
    /\ last = {}
    /\ installed_plugins = EmptyMap
    /\ dependency_graph = [nodes |-> {}, edges |-> {}]
    /\ declared = EmptyMap
    /\ dep_last = {}
    /\ contexts = {}
    /\ regions = <<>>
    /\ rlimits = UnlimitedProcess
    /\ builtins = OriginalBuiltins
    /\ sandboxes = <<>>
    /\ disk = InitialDisk
    /\ savers = NoSavers
    /\ search_cache = EmptyMap
    /\ clock = [now |-> 0, catalog |-> 1, made |-> 0]
    /\ searches = {}

NextRegistry ==
    \/ RegistryRegister
    \/ RegistryUnregister
    \/ DisablePlugin
    \/ ListPlugins
    \/ CorruptFile
    \/ Construct

SpecRegistry == InitRegistry /\ [][NextRegistry]_vars

C22_BadFileGivesEmptyRegistry ==
    \A e \in last :
        (e.op = "construct" /\ \E c \in e.found : c.kind \in BadKinds) =>
            /\ ~e.raised
            /\ e.backup = e.found
            /\ registry_data = EmptyRegistry
            /\ registry_file = {save_registry(EmptyRegistry)}

\* C23: every name in an index is a key of the plugins map and is indexed
\* only under the current attributes of its record.
C23_IndexesFollowThePlugins ==
    LET index == registry_data.index
        known == DOMAIN registry_data.plugins
        manifest(n) == registry_data.plugins[n].manifest
    IN  /\ \A t \in DOMAIN index.by_type : \A n \in Range(index.by_type[t]) :
               n \in known /\ manifest(n).plugin_type = t
        /\ \A u \in DOMAIN index.by_author :
               \A n \in Range(index.by_author[u]) :
                   n \in known /\ manifest(n).author = u
        /\ \A q \in DOMAIN index.by_provider :
               \A n \in Range(index.by_provider[q]) :
                   n \in known /\ q \in Range(providers_of(manifest(n)))
        /\ \A n \in DOMAIN index.dependencies :
               n \in known /\ manifest(n).dependencies = index.dependencies[n]

\* C24: list_plugins returns exactly the registered names that satisfy
\* every filter supplied.
C24_ListPluginsAppliesEveryFilter ==
    \A e \in last :
        e.op = "list" =>
            /\ ~e.ret.raised
            /\ e.ret.plugins =
                   {n \in DOMAIN registry_data.plugins :
                       LET entry == registry_data.plugins[n]
                       IN  /\ e.plugin_type # None =>
                                  entry.manifest.plugin_type = e.plugin_type
                           /\ e.author # None =>
                                  entry.manifest.author = e.author
                           /\ e.provider # None =>
                                  lower(e.provider) \in
                                      Range(providers_of(entry.manifest))
                           /\ e.enabled_only => entry.enabled}

\* C25: a register or unregister call that reports failure leaves the
\* registry in memory and the registry file as they were.
C25_FailedMutationChangesNothing ==
    [][\A e \in last' :
           (e.op \in {"register", "unregister"} /\ ~e.ret) =>
               /\ registry_data' = registry_data
               /\ registry_file' = registry_file]_vars

(***************************************************************************)
(* SpecDiscovery: PluginDiscovery._parse_manifest and discover.  Manifest  *)
(* data is the dictionary read from a manifest file: a function from the   *)
(* keys present to their values.                                           *)
(***************************************************************************)
required_fields ==
    {"name", "version", "description", "author", "type", "main_class"}

\* The values of the PluginType enumeration.
PluginType ==
    {"template", "provider", "validator", "generator", "hook", "extension",
     "middleware"}

\* Manifest dictionaries with every key of the model present.
FullData ==
    {[name |-> n, version |-> 1, description |-> "d", author |-> "x",
      type |-> t, main_class |-> "Main", module_path |-> "mod",
      dependencies |-> <<"b>=1.0.0">>] :
        n \in Names, t \in {"template", "provider", "plugin"}}

\* The dictionary with only the keys in present.
Restrict(data, present) == [k \in present |-> data[k]]

ManifestData ==
    {Restrict(data, present) :
        data \in FullData,
        present \in SUBSET (required_fields \cup {"module_path",
                                                  "dependencies"})}

\* data.get(key, default)
Get(data, key, default) == IF key \in DOMAIN data THEN data[key] ELSE default

\* _parse_manifest accepting any type value.
parse_manifest_AnyType(data) ==
    IF \E field \in required_fields : field \notin DOMAIN data
    THEN {}
    ELSE {[name |-> data["name"], version |-> data["version"],
           description |-> data["description"], author |-> data["author"],
           plugin_type |-> data["type"], main_class |-> data["main_class"],
           module_path |-> Get(data, "module_path", data["main_class"]),
           dependencies |-> Get(data, "dependencies", <<>>)]}

\* _parse_manifest(data, source_path): {} for None, {manifest} otherwise.
parse_manifest(data) ==
    IF \E field \in required_fields : field \notin DOMAIN data
    THEN {}
    ELSE IF data["type"] \notin PluginType
    THEN {}
    ELSE {[name |-> data["name"], version |-> data["version"],
           description |-> data["description"], author |-> data["author"],
           plugin_type |-> data["type"], main_class |-> data["main_class"],
           module_path |-> Get(data, "module_path", data["main_class"]),
           dependencies |-> Get(data, "dependencies", <<>>)]}

ParseManifest ==
    \E data \in ManifestData :
        /\ dep_last = {}
        /\ dep_last' = {[op |-> "parse", data |-> data,
                         ret |-> parse_manifest(data)]}
        /\ UNCHANGED <<marketVars, saveVars, sandboxVars, lifecycleVars, loadVars, hookVars,
                       installVars, installed_plugins, dependency_graph,
                       declared>>

\* What a plugin directory or package file found in a search root holds as
\* its manifest: {} for text that is not JSON, or {the dictionary}.  The
\* description tells the places apart.
Candidate(n, place) ==
    [name |-> n, version |-> 1, description |-> place, author |-> "x",
     type |-> "template", main_class |-> "Main"]

CandidatesAt(place) ==
    {{}, {Candidate("a", place)}, {Candidate("b", place)},
     {Restrict(Candidate("a", place), required_fields \ {"version"})}}

\* A search root: absent, or the plugin directories and the package files
\* in it, each in the order iterdir gives them (at most one of each).
RootsAt(r) ==
    {[exists |-> FALSE, dirs |-> <<>>, packages |-> <<>>]}
    \cup {[exists |-> TRUE, dirs |-> d, packages |-> k] :
            d \in {<<>>} \cup {<<c>> : c \in CandidatesAt(<<r, "dir">>)},
            k \in {<<>>} \cup {<<c>> : c \in CandidatesAt(<<r, "package">>)}}

\* _load_manifest_from_directory / _load_manifest_from_package: json.loads,
\* then _parse_manifest; any exception gives None.
load_manifest(content) ==
    IF content = {}
    THEN {}
    ELSE parse_manifest(CHOOSE data \in content : TRUE)

\* _discover_in_directory / _discover_packages: the manifests that load.
RECURSIVE discover_in(_)
discover_in(items) ==
    IF items = <<>>
    THEN <<>>
    ELSE LET manifest == load_manifest(Head(items))
         IN  (IF manifest = {}
              THEN <<>>
              ELSE <<CHOOSE m \in manifest : TRUE>>) \o discover_in(Tail(items))

\* f"{manifest.metadata.name}:{manifest.metadata.version}"
plugin_key(manifest) == <<manifest.name, manifest.version>>

\* The loop of discover in which a later manifest replaces an earlier one
\* with the same key.
RECURSIVE collect_LastWins(_, _)
collect_LastWins(manifests, found) ==
    IF found = <<>>
    THEN manifests
    ELSE LET manifest == Head(found)
             others == SelectSeq(manifests, LAMBDA m :
                                     plugin_key(m) # plugin_key(manifest))
         IN  collect_LastWins(Append(others, manifest), Tail(found))

\* The loop of discover over the manifests found in one place: a manifest
\* is appended unless its key was seen.
RECURSIVE collect(_, _)
collect(manifests, found) ==
    IF found = <<>>
    THEN manifests
    ELSE LET manifest == Head(found)
             seen_plugins == {plugin_key(m) : m \in Range(manifests)}
         IN  collect(IF plugin_key(manifest) \notin seen_plugins
                     THEN Append(manifests, manifest)
                     ELSE manifests,
                     Tail(found))

RECURSIVE discover_from(_, _)
discover_from(manifests, all_paths) ==
    IF all_paths = <<>>
    THEN manifests
    ELSE LET search_path == Head(all_paths)
         IN  discover_from(
                 IF ~search_path.exists
                 THEN manifests
                 ELSE collect(collect(manifests,
                                      discover_in(search_path.dirs)),
                              discover_in(search_path.packages)),
                 Tail(all_paths))

\* discover(additional_paths)
discover(search_paths, additional_paths) ==
    discover_from(<<>>, search_paths \o additional_paths)

Discover ==
    \E r1 \in RootsAt(1), r2 \in RootsAt(2), r3 \in RootsAt(3) :
        /\ dep_last = {}
        /\ dep_last' = {[op |-> "discover", search_paths |-> <<r1, r2>>,
                         additional_paths |-> <<r3>>,
                         ret |-> discover(<<r1, r2>>, <<r3>>)]}
        /\ UNCHANGED <<marketVars, saveVars, sandboxVars, lifecycleVars, loadVars, hookVars,
                       installVars, installed_plugins, dependency_graph,
                       declared>>

InitDiscovery ==
    /\ insts = <<>>
    /\ walk = 0
    /\ ncalls = 0
    /\ InitOthers

NextDiscovery ==
    \/ ParseManifest
    \/ Discover

SpecDiscovery == InitDiscovery /\ [][NextDiscovery]_vars

(***************************************************************************)
(* Claims about discovery (SpecDiscovery).                                 *)
(***************************************************************************)
\* C26: manifest parsing returns a manifest carrying the given name,
\* version, type, main class and dependency specifications when every
\* required field is present and the type is a recognized one, and returns
\* no manifest otherwise.
C26_ParseManifestChecksFieldsAndType ==
    \A e \in dep_last :
        e.op = "parse" =>
            IF required_fields \subseteq DOMAIN e.data
               /\ e.data["type"] \in PluginType
            THEN \E m \in e.ret :
                    /\ e.ret = {m}
                    /\ m.name = e.data["name"]
                    /\ m.version = e.data["version"]
                    /\ m.plugin_type = e.data["type"]
                    /\ m.main_class = e.data["main_class"]
                    /\ m.dependencies = Get(e.data, "dependencies", <<>>)
            ELSE e.ret = {}

\* A dictionary with every key and a recognized type was parsed.
C26_ParsedFullManifest ==
    \E e \in dep_last :
        /\ e.op = "parse"
        /\ DOMAIN e.data = required_fields \cup {"module_path", "dependencies"}
        /\ e.ret # {}

\* The candidates of a discover call in search-root order: the roots of the
\* configuration before the caller's, in each root the directories before
\* the packages.
RECURSIVE InOrder(_)
InOrder(all_paths) ==
    IF all_paths = <<>>
    THEN <<>>
    ELSE (IF Head(all_paths).exists
          THEN Head(all_paths).dirs \o Head(all_paths).packages
          ELSE <<>>) \o InOrder(Tail(all_paths))

\* Whether the candidate's manifest is well formed, with the given key.
WellFormed(content, key) ==
    \E data \in content :
        /\ required_fields \subseteq DOMAIN data
        /\ <<data["name"], data["version"]>> = key

\* C27: discover returns no two manifests with the same name:version key,
\* for each key the first occurrence in search-root order, drops malformed
\* candidates without ending the scan, and changes neither the registry nor
\* the active set.
C27_DiscoverKeepsFirstOccurrence ==
    [][\A e \in dep_last' :
           e.op = "discover" =>
               LET order == InOrder(e.search_paths \o e.additional_paths)
                   keys == {k \in Names \X {1} :
                               \E i \in DOMAIN order : WellFormed(order[i], k)}
                   first(k) == CHOOSE i \in DOMAIN order :
                                   /\ WellFormed(order[i], k)
                                   /\ \A j \in 1 .. i - 1 :
                                          ~WellFormed(order[j], k)
               IN  /\ \A i, j \in DOMAIN e.ret :
                          plugin_key(e.ret[i]) = plugin_key(e.ret[j]) => i = j
                   /\ {plugin_key(m) : m \in Range(e.ret)} = keys
                   /\ \A m \in Range(e.ret) :
                          \E data \in order[first(plugin_key(m))] :
                              m.description = data["description"]
                   /\ registry_data' = registry_data
                   /\ registry_file' = registry_file
                   /\ plugins' = plugins]_vars

\* discover met an unreadable manifest in the first root, then plugin a in
\* the second root and again in the caller's root, and returned the second
\* root's.
C27_FirstRootWon ==
    \E e \in dep_last :
        /\ e.op = "discover"
        /\ e.search_paths[1].exists
        /\ e.search_paths[1].dirs = <<{}>>
        /\ e.search_paths[2].packages = <<{Candidate("a", <<2, "package">>)}>>
        /\ e.additional_paths[1].dirs = <<{Candidate("a", <<3, "dir">>)}>>
        /\ Len(e.ret) = 1
        /\ e.ret[1].description = <<2, "package">>

(***************************************************************************)
(* SpecValidator: the decision of PluginValidator.validate_plugin_package. *)
(* A package is described by what the checks find in it.                   *)
(***************************************************************************)
Severities == {"critical", "high", "medium", "low"}

\* A package with a loadable manifest: a directory or an archive file,
\* whether the manifest's name, version and main class match their
\* patterns, the permissions it asks for, whether its dependency
\* specifications match theirs, and the severities of what the analysis of
\* its Python files finds.
ValidatedPackages ==
    [kind : {"dir", "archive"}, name_ok : BOOLEAN, version_ok : BOOLEAN,
     class_ok : BOOLEAN, permissions : {{}, {"file_read"}, {"file_write"}},
     dependencies_ok : BOOLEAN, code : SUBSET Severities]

Violation(severity, description) ==
    [severity |-> severity, description |-> description]

\* _validate_manifest_content(manifest)
validate_manifest_content(package) ==
    (IF package.name_ok THEN {} ELSE {Violation("high", "name")})
    \cup (IF package.version_ok THEN {} ELSE {Violation("medium", "version")})
    \cup (IF package.class_ok THEN {} ELSE {Violation("high", "main_class")})
    \cup {Violation("medium", "permission") :
            permission \in package.permissions \cap
                {"file_write", "network_access", "system_exec"}}
    \cup (IF package.dependencies_ok
          THEN {}
          ELSE {Violation("medium", "dependency")})

\* _validate_package_structure(source_path): the analysis of a directory,
\* or the failed call of _validate_archive_structure for a file.
validate_package_structure(package) ==
    IF package.kind = "dir"
    THEN {Violation(severity, "code") : severity \in package.code}
    ELSE {Violation("critical", "structure")}

\* validate_plugin_package(source) of a validator with the given
\* strict_mode: TRUE when the manifest is returned.
validate_package(strict_mode, package) ==
    LET manifest_violations == validate_manifest_content(package)
        violations == validate_package_structure(package)
    IN  IF \E v \in manifest_violations : v.severity = "critical"
        THEN FALSE
        ELSE IF \E v \in violations : v.severity = "critical"
        THEN FALSE
        ELSE IF strict_mode /\ violations # {}
        THEN FALSE
        ELSE TRUE

ValidatePackage ==
    \E strict_mode \in BOOLEAN, package \in ValidatedPackages :
        /\ dep_last = {}
        /\ dep_last' = {[op |-> "validate", strict_mode |-> strict_mode,
                         package |-> package,
                         ret |-> validate_package(strict_mode, package)]}
        /\ UNCHANGED <<marketVars, saveVars, sandboxVars, lifecycleVars, loadVars, hookVars,
                       installVars, installed_plugins, dependency_graph,
                       declared>>

InitValidator ==
    /\ insts = <<>>
    /\ walk = 0
    /\ ncalls = 0
    /\ InitOthers

NextValidator == ValidatePackage

SpecValidator == InitValidator /\ [][NextValidator]_vars

(***************************************************************************)
(* Claims about the validator (SpecValidator).                             *)
(***************************************************************************)
\* C28: validate_plugin_package rejects when any finding is critical, in
\* strict mode rejects when there is any finding, from manifest validation
\* or from code analysis, and accepts otherwise.
C28_DecisionPolicy ==
    \A e \in dep_last :
        e.op = "validate" =>
            LET findings == validate_manifest_content(e.package)
                                \cup validate_package_structure(e.package)
            IN  e.ret <=>
                    /\ ~\E v \in findings : v.severity = "critical"
                    /\ ~(e.strict_mode /\ findings # {})

(***************************************************************************)
(* The Error stage (SpecLifecycle).                                        *)
(***************************************************************************)
\* C29: once the stage of a plugin instance is Error, no Plugin.load,
\* initialize, activate, deactivate or unload call moves it to another
\* stage.
C29_ErrorIsAbsorbing ==
    [][(/\ insts[1].stage = "error"
        /\ \/ CallLoad
           \/ CallInitialize
           \/ CallActivate
           \/ CallDeactivate
           \/ CallUnload) =>
           insts'[1].stage = "error"]_vars

(***************************************************************************)
(* The sandbox during load_plugin (SpecLoad).                              *)
(***************************************************************************)
\* C30: when the loader stage of load_plugin executes the plugin's module
\* and instantiates its entry class (a new Plugin object appears), a
\* SecurityContext for that plugin is active.
C30_LoaderRunsInsideSandbox ==
    [][Len(insts') > Len(insts) =>
           \E c \in contexts : c.plugin_name = insts'[Len(insts')].name]_vars

(***************************************************************************)
(* The end of a region (SpecSandbox).                                      *)
(***************************************************************************)
\* is_operation_allowed(operation, plugin_name) with the thread's context.
is_operation_allowed(context, operation, plugin_name) ==
    \E c \in context :
        /\ c.plugin_name = plugin_name
        /\ operation \in {"network_request", "file_write", "file_read",
                          "temp_write", "system_exec"}
        /\ (CASE operation = "network_request" -> "network_access"
              [] operation = "system_exec" -> "system_access"
              [] OTHER -> operation) \in c.permissions

\* get_security_report(plugin_name): the context found, if any.
get_security_report(context, plugin_name) ==
    {c \in context : c.plugin_name = plugin_name}

\* A step that leaves the innermost region.
RegionExits == regions # <<>> /\ regions' = SubSeq(regions, 1, Len(regions) - 1)

\* C31: when a secure_execution region exits, the CPU-time and
\* address-space limits of the process are those it had just before the
\* region was entered, and the context of the region is no longer reachable
\* (is_operation_allowed is false, get_security_report finds no context).
C31_ExitRestoresLimitsAndDropsContext ==
    [][RegionExits =>
           LET region == regions[Len(regions)]
           IN  /\ rlimits'.RLIMIT_CPU = region.entered_with.RLIMIT_CPU
               /\ rlimits'.RLIMIT_AS = region.entered_with.RLIMIT_AS
               /\ \A operation \in {"file_read", "file_write", "temp_write"} :
                      ~is_operation_allowed(contexts', operation,
                                            region.plugin_name)
               /\ get_security_report(contexts', region.plugin_name) = {}]_vars

\* The part of C31 about the context alone.
C31_ExitDropsContext ==
    [][RegionExits =>
           LET region == regions[Len(regions)]
           IN  /\ \A operation \in {"file_read", "file_write", "temp_write"} :
                      ~is_operation_allowed(contexts', operation,
                                            region.plugin_name)
               /\ get_security_report(contexts', region.plugin_name) = {}]_vars

(***************************************************************************)
(* SpecSave: PluginRegistry._save_registry step by step.  Three tasks save *)
(* the registry of one registry file: two on the event loop of one         *)
(* process, one in another process.  A save opens registry.tmp for         *)
(* writing, writes the serialised registry in pieces, closes the file and  *)
(* renames it over registry.json; the process can die and the write can    *)
(* fail in between.                                                        *)
(***************************************************************************)
MaxSaves == 1

MaxInodes == 4

Hole == 0 - 1

\* The content a reader of registry.json sees.
Reader == disk.inodes[disk.registry]

\* The inodes that a path or an open file of a running save refers to.
Referenced(d, sv) ==
    {d.registry} \cup d.tmp \cup {sv[w].fd : w \in {x \in Writers : sv[x].pc = "writing"}}

Collect(d, sv) ==
    [d EXCEPT !.inodes = [i \in DOMAIN d.inodes \cap Referenced(d, sv) |-> d.inodes[i]]]

\* write() of one piece at position k of a file.
WriteAt(content, k, piece) ==
    [i \in 1 .. (IF Len(content) > k THEN Len(content) ELSE k) |->
        IF i = k THEN piece
        ELSE IF i <= Len(content) THEN content[i] ELSE Hole]

\* _save_registry is synchronous: while a task of a process is inside it,
\* the event loop of that process runs no other task.
MayRun(w) ==
    /\ savers[w].pc # "crashed"
    /\ \A x \in Writers \ {w} :
           ProcessOf(x) = ProcessOf(w) => savers[x].pc # "writing"

\* temp_file.write_text(...): open(registry.tmp, 'w') creates the file or
\* truncates the one that is there.
OpenTemp(w) ==
    /\ MayRun(w)
    /\ savers[w].pc = "idle"
    /\ savers[w].saves < MaxSaves
    /\ LET inode == IF disk.tmp # {}
                    THEN CHOOSE i \in disk.tmp : TRUE
                    ELSE CHOOSE i \in 1 .. MaxInodes :
                             /\ i \notin DOMAIN disk.inodes
                             /\ \A j \in 1 .. (i - 1) : j \in DOMAIN disk.inodes
           sv == [savers EXCEPT ![w] =
                      [pc |-> "writing", fd |-> inode,
                       data |-> 10 * w + savers[w].saves + 1, written |-> 0,
                       saves |-> savers[w].saves + 1, raised |-> FALSE]]
       IN  /\ savers' = sv
           /\ disk' = [inodes |-> [i \in DOMAIN disk.inodes \cup {inode} |->
                                      IF i = inode THEN <<>> ELSE disk.inodes[i]],
                       registry |-> disk.registry, tmp |-> {inode}]
    /\ UNCHANGED <<marketVars, sandboxVars, lifecycleVars, loadVars,
                   hookVars, installVars, depVars>>

\* The next piece of the serialised registry goes to the open file.
WritePiece(w) ==
    /\ MayRun(w)
    /\ savers[w].pc = "writing"
    /\ savers[w].written < ChunksPerFile
    /\ LET k == savers[w].written + 1
       IN  /\ disk' = [disk EXCEPT !.inodes[savers[w].fd] =
                                       WriteAt(@, k, savers[w].data)]
           /\ savers' = [savers EXCEPT ![w].written = k]
    /\ UNCHANGED <<marketVars, sandboxVars, lifecycleVars, loadVars,
                   hookVars, installVars, depVars>>

\* The file is closed and temp_file.replace(self.registry_file) renames it;
\* FileNotFoundError when registry.tmp is not there.
ReplaceRegistry(w) ==
    /\ MayRun(w)
    /\ savers[w].pc = "writing"
    /\ savers[w].written = ChunksPerFile
    /\ LET found == disk.tmp # {}
           sv == [savers EXCEPT ![w].pc = "idle", ![w].fd = 0,
                                ![w].raised = ~found]
           d == IF found
                THEN [disk EXCEPT !.registry = CHOOSE i \in disk.tmp : TRUE,
                                  !.tmp = {}]
                ELSE disk
       IN  /\ savers' = sv
           /\ disk' = Collect(d, sv)
    /\ UNCHANGED <<marketVars, sandboxVars, lifecycleVars, loadVars,
                   hookVars, installVars, depVars>>

\* write_text raises (the disk is full, say): except Exception ... raise.
FailWrite(w) ==
    /\ MayRun(w)
    /\ savers[w].pc = "writing"
    /\ LET sv == [savers EXCEPT ![w].pc = "idle", ![w].fd = 0,
                                ![w].raised = TRUE]
       IN  /\ savers' = sv
           /\ disk' = Collect(disk, sv)
    /\ UNCHANGED <<marketVars, sandboxVars, lifecycleVars, loadVars,
                   hookVars, installVars, depVars>>

\* The process of a task dies inside _save_registry.
Crash(w) ==
    /\ MayRun(w)
    /\ savers[w].pc = "writing"
    /\ LET sv == [x \in Writers |->
                     IF ProcessOf(x) = ProcessOf(w)
                     THEN [savers[x] EXCEPT !.pc = "crashed", !.fd = 0]
                     ELSE savers[x]]
       IN  /\ savers' = sv
           /\ disk' = Collect(disk, sv)
    /\ UNCHANGED <<marketVars, sandboxVars, lifecycleVars, loadVars,
                   hookVars, installVars, depVars>>

InitSave ==
    /\ insts = <<>>
    /\ walk = 0
    /\ ncalls = 0
    /\ InitOthers

NextSave ==
    \E w \in Writers :
        \/ OpenTemp(w)
        \/ WritePiece(w)
        \/ ReplaceRegistry(w)
        \/ FailWrite(w)
        \/ Crash(w)

SpecSave == InitSave /\ [][NextSave]_vars

(***************************************************************************)
(* Claims about saving the registry (SpecSave).                            *)
(***************************************************************************)
\* A step after which registry.json holds what it held before, or the whole
\* content of a save in progress.
AtomicStep ==
    \/ Reader' = Reader
    \/ \E w \in Writers : savers[w].pc = "writing" /\ Reader' = Whole(savers[w].data)

\* C32: at every point of a save, a crash or failure between two of its
\* steps included, registry.json holds the complete previous content or the
\* complete new content; a reader never sees a partly written registry.
C32_SaveIsAtomic == [][AtomicStep]_vars

\* C32 while the saves come from one process only.
C32_OneProcessSavesAtomically ==
    [][(\A w \in Writers : ProcessOf(w) = 2 => savers'[w].saves = 0) =>
           AtomicStep]_vars

\* C33: two saves on the same registry file, from two tasks or two
\* processes, never overlap their write-temp-file and rename steps.
C33_OneWriterAtATime ==
    \A w \in Writers, x \in Writers :
        (savers[w].pc = "writing" /\ savers[x].pc = "writing") => w = x

\* C33 for the tasks of one process.
C33_TasksOfOneProcessDoNotOverlap ==
    \A w \in Writers, x \in Writers :
        (/\ ProcessOf(w) = ProcessOf(x)
         /\ savers[w].pc = "writing"
         /\ savers[x].pc = "writing") => w = x

(***************************************************************************)
(* The error history of a plugin (SpecLoad).                               *)
(***************************************************************************)
\* C34: every load_plugin call that returns False and every unload_plugin
\* call that fails, on a registered plugin, appends one entry to the error
\* history of that plugin in the registry.
C34_FailureIsRecorded ==
    [][\A t \in DOMAIN tasks \cap DOMAIN tasks' :
          (/\ \/ Finishes(t, "load")
              \/ FinishesAtOnce(t, "load")
              \/ Finishes(t, "unload")
              \/ FinishesAtOnce(t, "unload")
           /\ tasks'[t].ret = "False"
           /\ tasks'[t].name \in DOMAIN registry_data) =>
              /\ tasks'[t].name \in DOMAIN registry_data'
              /\ Len(registry_data'[tasks'[t].name].errors) =
                     Len(registry_data[tasks'[t].name].errors) + 1]_vars

(***************************************************************************)
(* What an installation from an archive leaves behind (SpecArchive).       *)
(***************************************************************************)
\* C35: after PluginLoader.install from an archive returns, on success and
\* on every failure path, wherever the plugin root sits in the archive, no
\* extraction directory of the call remains and no partly copied install
\* directory exists.
C35_InstallLeavesNoArtifacts ==
    \A e \in last :
        e.op = "install" =>
            /\ ~e.temp
            /\ dirs["a"] \in {{}, {ArchiveTree}}

\* The same for the installations that succeed from an archive with the
\* manifest at its root.
C35_RootInstallLeavesNoArtifacts ==
    \A e \in last :
        (e.op = "install" /\ e.ret = "a" /\ <<"m">> \in e.archive.entries) =>
            /\ ~e.temp
            /\ dirs["a"] = {ArchiveTree}

(***************************************************************************)
(* SpecSearch: PluginMarketplace.search and its cache.  Time passes in     *)
(* whole seconds; what the repositories hold is a catalogue that changes.  *)
(* A search that misses the cache waits for the repositories, and other    *)
(* searches run meanwhile.                                                 *)
(***************************************************************************)
MaxTime == 3

MaxSearches == 3

\* self.cache_ttl
cache_ttl == 2

\* tags = None, as a list that no caller passes.
NoTags == <<None>>

\* The parameters of a search: query, category, tags, author, min_rating
\* and max_results.  A search without tags and two with the same tags in
\* different orders, one with category None and one with category "".
SearchParams ==
    {[query |-> "x", category |-> c[1], tags |-> c[2], author |-> None,
      min_rating |-> 0, max_results |-> c[3]] :
        c \in {<<None, NoTags, 2>>, <<None, <<"s", "t">>, 2>>,
               <<"", <<"t", "s">>, 1>>}}

\* sorted(tags) for the tags of the model.
sorted(tags) == IF tags = <<"t", "s">> THEN <<"s", "t">> ELSE tags

\* ','.join(tags) for the tags of the model.
join(tags) == IF tags = <<"s", "t">> THEN "s,t" ELSE "t,s"

\* _create_search_cache_key: the parts that are joined with "|".
create_search_cache_key(query, category, tags, author, min_rating) ==
    <<query,
      IF category = None THEN "" ELSE category,
      IF tags = NoTags \/ tags = <<>> THEN "" ELSE join(sorted(tags)),
      IF author = None THEN "" ELSE author,
      min_rating>>

KeyOf(params) ==
    create_search_cache_key(params.query, params.category, params.tags,
                            params.author, params.min_rating)

\* The merged, sorted listings the repositories give for a search.
Results(catalog, params) ==
    LET first == [name |-> "p", version |-> catalog, key |-> KeyOf(params)]
        second == [name |-> "q", version |-> 1, key |-> KeyOf(params)]
    IN  IF catalog = 1 THEN <<first, second>> ELSE <<second, first>>

\* results[:max_results]
Take(results, max_results) ==
    SubSeq(results, 1, IF Len(results) < max_results
                       THEN Len(results) ELSE max_results)

\* The mutant of cached: an entry never expires.
cached_NoExpiry(cache, cache_key, now) ==
    IF cache_key \in DOMAIN cache THEN {cache[cache_key]} ELSE {}

\* The cache check of search: the entry, when the key is in the cache and
\* now - timestamp < cache_ttl.
cached(cache, cache_key, now) ==
    IF cache_key \in DOMAIN cache /\ now - cache[cache_key].timestamp < cache_ttl
    THEN {cache[cache_key]}
    ELSE {}

\* The entry of the key, if any.
EntryOf(cache, cache_key) ==
    IF cache_key \in DOMAIN cache THEN {cache[cache_key]} ELSE {}

\* search(...) up to the await on the repositories: a hit returns the
\* cached results, a miss sends one request to each repository.
SearchStart ==
    \E params \in SearchParams :
        LET cache_key == KeyOf(params)
            hit == cached(search_cache, cache_key, clock.now)
            call == [op |-> "search", params |-> params, key |-> cache_key,
                     made |-> clock.now,
                     before |-> EntryOf(search_cache, cache_key)]
        IN  /\ clock.made < MaxSearches
            /\ IF hit # {}
               THEN /\ last' = {[call |-> call, queried |-> FALSE,
                                 returned |-> clock.now,
                                 results |->
                                     Take((CHOOSE e \in hit : TRUE).results,
                                          params.max_results)]}
                    /\ UNCHANGED searches
               ELSE /\ searches' = searches \cup {call}
                    /\ last' = {}
            /\ clock' = [clock EXCEPT !.made = @ + 1]
            /\ UNCHANGED search_cache
            /\ UNCHANGED <<saveVars, sandboxVars, lifecycleVars, loadVars,
                           hookVars, depVars, dirs, registry_data,
                           registry_file>>

\* The repositories have answered: the results are merged and sorted, put
\* in the cache under the key with the time now, and returned.  The entry
\* remembers when the latest of the searches behind it was made.
SearchFinish ==
    \E call \in searches :
        LET sorted_results == Results(clock.catalog, call.params)
            earlier == EntryOf(search_cache, call.key)
            made == IF \E e \in earlier : e.made > call.made
                    THEN (CHOOSE e \in earlier : TRUE).made
                    ELSE call.made
            entry == [results |-> sorted_results, timestamp |-> clock.now,
                      made |-> made]
        IN  /\ search_cache' = Put(search_cache, call.key, entry)
            /\ searches' = searches \ {call}
            /\ last' = {[call |-> call, queried |-> TRUE,
                         returned |-> clock.now,
                         results |-> Take(sorted_results,
                                          call.params.max_results)]}
            /\ UNCHANGED clock
            /\ UNCHANGED <<saveVars, sandboxVars, lifecycleVars, loadVars,
                           hookVars, depVars, dirs, registry_data,
                           registry_file>>

\* A second passes.
Tick ==
    /\ clock.now < MaxTime
    /\ clock' = [clock EXCEPT !.now = @ + 1]
    /\ UNCHANGED <<search_cache, searches>>
    /\ UNCHANGED <<saveVars, sandboxVars, lifecycleVars, loadVars, hookVars,
                   installVars, depVars>>

\* The repositories publish another catalogue.
Publish ==
    /\ clock' = [clock EXCEPT !.catalog = 3 - @]
    /\ UNCHANGED <<search_cache, searches>>
    /\ UNCHANGED <<saveVars, sandboxVars, lifecycleVars, loadVars, hookVars,
                   installVars, depVars>>

InitSearch ==
    /\ insts = <<>>
    /\ walk = 0
    /\ ncalls = 0
    /\ InitOthers

NextSearch ==
    \/ SearchStart
    \/ SearchFinish
    \/ Tick
    \/ Publish

SpecSearch == InitSearch /\ [][NextSearch]_vars

C36_AnsweredFromCache ==
    \E e \in last :
        /\ ~e.queried
        /\ e.call.params.tags = <<"t", "s">>
        /\ e.call.before # {}

(***************************************************************************)
(* The context of the running region (SpecSandbox).                        *)
(***************************************************************************)
\* C37: from entry to exit of a secure_execution region the current context
\* seen by its code is the context of that region: another region entered
\* and left on the same thread never leaves the region that is still
\* running with no context or with the permissions of another plugin.
C37_RunningRegionHasItsContext ==
    regions # <<>> =>
        LET region == regions[Len(regions)]
        IN  \E c \in contexts :
                /\ c.plugin_name = region.plugin_name
                /\ c.permissions = region.permissions

(***************************************************************************)
(* The hook lists and the active set (SpecLoad).                           *)
(***************************************************************************)
\* C38: after any sequence and interleaving of load_plugin and
\* unload_plugin calls (every call has returned), every Plugin object in a
\* hook list is the object stored in the active set under its name and
\* appears at most once in the list.
C38_HookListsHoldActivePlugins ==
    (\A t \in DOMAIN tasks : tasks[t].pc = "done") =>
        \A h \in DOMAIN hooks :
            /\ \A k \in DOMAIN hooks[h] :
                   LET i == hooks[h][k]
                   IN  /\ insts[i].name \in DOMAIN plugins
                       /\ plugins[insts[i].name] = i
            /\ \A k \in DOMAIN hooks[h], j \in DOMAIN hooks[h] :
                   hooks[h][k] = hooks[h][j] => k = j

(***************************************************************************)
(* Disabled plugins.  In SpecLoad the record of the plugin is enabled or   *)
(* was disabled (disable_plugin) before the first call; in SpecRegistry    *)
(* DisablePlugin and RegistryRegister act on the record.                   *)
(***************************************************************************)
\* C39: a plugin whose registry record has enabled = false never enters
\* the active set: no load_plugin call (load_all_plugins calls load_plugin
\* for every registered name) loads it.
C39_DisabledPluginIsNotLoaded ==
    \A n \in DOMAIN plugins :
        n \in DOMAIN registry_data => registry_data[n].enabled

\* The part of C39 about registration (SpecRegistry, where nothing enables
\* a plugin): a record that is disabled stays disabled while it is there.
C39_DisabledFlagSurvivesRegister ==
    [][\A n \in DOMAIN registry_data.plugins \cap DOMAIN registry_data'.plugins :
           ~registry_data.plugins[n].enabled =>
               ~registry_data'.plugins[n].enabled]_vars

(***************************************************************************)
(* SpecShutdown: PluginSandbox objects constructed and shut down in one    *)
(* interpreter.  sandboxes[i] holds the fields of the i-th object:         *)
(* enabled, _original_hooks (the open it saved, if any), _contexts, and    *)
(* whether shutdown has been called on it.                                 *)
(***************************************************************************)
MaxSandboxes == 3

\* _setup_security_hooks: the current builtins.open is saved and replaced
\* by the bound _secure_open; _install_import_hook wraps the current
\* builtins.__import__ in a closure and installs it (the wrapped function
\* is kept by the closure alone).
setup_security_hooks(b, i) ==
    [open |-> i, import |-> Append(b.import, i)]

\* PluginSandbox(config)
ConstructSandbox ==
    \E enabled \in BOOLEAN :
        LET i == Len(sandboxes) + 1
        IN  /\ Len(sandboxes) < MaxSandboxes
            /\ sandboxes' = Append(sandboxes,
                   [enabled |-> enabled,
                    original_hooks |-> IF enabled THEN {builtins.open} ELSE {},
                    contexts |-> {}, shut |-> FALSE])
            /\ builtins' = IF enabled
                           THEN setup_security_hooks(builtins, i)
                           ELSE builtins
            /\ UNCHANGED <<marketVars, saveVars, lifecycleVars, loadVars,
                           hookVars, installVars, depVars, contexts, regions,
                           rlimits>>

\* A secure_execution region of the sandbox is entered: its _contexts holds
\* a context.
SandboxEnter ==
    \E i \in DOMAIN sandboxes, plugin_name \in Names :
        /\ sandboxes[i].enabled
        /\ ~sandboxes[i].shut
        /\ sandboxes' = [sandboxes EXCEPT ![i].contexts =
                             {[plugin_name |-> plugin_name]}]
        /\ UNCHANGED <<marketVars, saveVars, lifecycleVars, loadVars,
                       hookVars, installVars, depVars, contexts, regions,
                       rlimits, builtins>>

\* shutdown(): for an enabled sandbox, builtins.open becomes the function
\* saved in _original_hooks (no other hook is saved or restored) and the
\* contexts are cleared.
shutdown(b, sandbox) ==
    IF ~sandbox.enabled
    THEN [builtins |-> b, sandbox |-> sandbox]
    ELSE [builtins |-> [b EXCEPT !.open = CHOOSE f \in sandbox.original_hooks : TRUE],
          sandbox |-> [sandbox EXCEPT !.contexts = {}]]

Shutdown ==
    \E i \in DOMAIN sandboxes :
        LET done == shutdown(builtins, sandboxes[i])
        IN  /\ ~sandboxes[i].shut
            /\ builtins' = done.builtins
            /\ sandboxes' = [sandboxes EXCEPT ![i] =
                                 [done.sandbox EXCEPT !.shut = TRUE]]
            /\ UNCHANGED <<marketVars, saveVars, lifecycleVars, loadVars,
                           hookVars, installVars, depVars, contexts, regions,
                           rlimits>>

InitShutdown ==
    /\ insts = <<>>
    /\ walk = 0
    /\ ncalls = 0
    /\ InitOthers

NextShutdown ==
    \/ ConstructSandbox
    \/ SandboxEnter
    \/ Shutdown

SpecShutdown == InitShutdown /\ [][NextShutdown]_vars

(***************************************************************************)
(* Claims about shutdown (SpecShutdown).                                   *)
(***************************************************************************)
\* Every sandbox constructed so far is enabled and has been shut down.
AllShutDown ==
    /\ sandboxes # <<>>
    /\ \A i \in DOMAIN sandboxes : sandboxes[i].enabled /\ sandboxes[i].shut

\* C40: when the enabled sandboxes constructed have been shut down, in any
\* order, builtins.open and builtins.__import__ are the functions they were
\* before the construction, and no sandbox holds a context.
C40_ShutdownRestoresBuiltins ==
    AllShutDown =>
        /\ builtins = OriginalBuiltins
        /\ \A i \in DOMAIN sandboxes : sandboxes[i].contexts = {}

\* What holds of C40: the contexts are cleared, and with one sandbox open is
\* restored.
C40_ShutdownClearsContexts ==
    AllShutDown =>
        /\ \A i \in DOMAIN sandboxes : sandboxes[i].contexts = {}
        /\ Len(sandboxes) = 1 => builtins.open = OriginalBuiltins.open

\* The part of C40 about open alone, for any number of sandboxes.
C40_ShutdownRestoresOpen ==
    AllShutDown => builtins.open = OriginalBuiltins.open

====
